---- MODULE Spec2Model ----
(***************************************************************************)
(* Overlay geometry / state engine of the e-sign PDF editor (src/App.tsx,  *)
(* src/components/FreeDrawLayer.tsx).                                       *)
(*                                                                         *)
(* One action is one browser event: the handler that the event reaches,    *)
(* every window listener attached at that moment, the React re-render and  *)
(* the effects that follow it (signaturesRef.current = signatures).        *)
(* JavaScript numbers are modelled as exact rationals [n, d] in lowest     *)
(* terms (d > 0); IEEE rounding, NaN and -0 are not modelled.              *)
(***************************************************************************)
EXTENDS Integers, Sequences, FiniteSets, TLC

(***************************************************************************)
(* Bounds of the model.                                                    *)
(***************************************************************************)
MaxIds == 2
MaxPast == 2
MaxPending == 1
MaxDragListeners == 1
MaxPoints == 2
MaxEvents == 7

NULL == "null"

(***************************************************************************)
(* Numbers.                                                                *)
(***************************************************************************)
IAbs(i) == IF i < 0 THEN -i ELSE i

RECURSIVE GCD(_, _)
GCD(a, b) == IF b = 0 THEN a ELSE GCD(b, a % b)

R(n, d) ==
    LET s == IF d < 0 THEN -1 ELSE 1
        g == GCD(IAbs(n), IAbs(d))
    IN  [n |-> (s * n) \div g, d |-> (s * d) \div g]

N(i) == [n |-> i, d |-> 1]
RAdd(a, b) == R(a.n * b.d + b.n * a.d, a.d * b.d)
RSub(a, b) == R(a.n * b.d - b.n * a.d, a.d * b.d)
RMul(a, b) == R(a.n * b.n, a.d * b.d)
RDiv(a, b) == R(a.n * b.d, a.d * b.n)
RLt(a, b) == a.n * b.d < b.n * a.d
RLe(a, b) == a.n * b.d <= b.n * a.d
RMin(a, b) == IF RLt(b, a) THEN b ELSE a
RMax(a, b) == IF RLt(a, b) THEN b ELSE a
RAbs(a) == [n |-> IAbs(a.n), d |-> a.d]

(***************************************************************************)
(* The page canvas (canvasRef.current.getBoundingClientRect()), in client  *)
(* pixels, and the pointer positions and images the events can carry.      *)
(***************************************************************************)
CanvasLeft == 0
CanvasTop == 0
CanvasW == 100
CanvasH == 200
canvasRect == [left |-> CanvasLeft, top |-> CanvasTop, width |-> CanvasW, height |-> CanvasH]

\* clientX / clientY of a mouse or touch event
Pointers == { [x |-> 50, y |-> 100], [x |-> 90, y |-> 60] }

\* Math.atan2(clientY - centerY, clientX - centerX) * (180 / Math.PI): the direction of
\* a pointer seen from the rotation centre, which a session keeps fixed
Atan2Deg(p) == IF p.x = 50 THEN 0 ELSE 90

\* signature images (data URLs); img.width / img.height of each
DataUrls == { "sigA", "sigB" }
ImageAspect(dataUrl) == IF dataUrl = "sigA" THEN R(2, 1) ELSE R(1, 5)
Opacities == { R(1, 2) }
Handles == { "nw", "se" }
Ids == 1 .. MaxIds

\* handle === c in place of handle.includes(c)
Includes_Exact(handle, c) == handle = c

\* String.prototype.includes on a handle code
Includes(handle, c) ==
    CASE handle = "n" -> c = "n"
      [] handle = "s" -> c = "s"
      [] handle = "e" -> c = "e"
      [] handle = "w" -> c = "w"
      [] handle = "nw" -> c \in {"n", "w"}
      [] handle = "ne" -> c \in {"n", "e"}
      [] handle = "sw" -> c \in {"s", "w"}
      [] handle = "se" -> c \in {"s", "e"}
      [] OTHER -> FALSE

\* an id that no element has (selectedSigId === null, editingSigId === null)
NoId == 0

VARIABLES
    signatures,        \* SignatureElement[]
    drawings,          \* PageDrawings: page index -> Stroke[]
    history,           \* { past, future }
    historyStartRef,   \* <<>> (null) or << {sigs, draws} >>
    dragListeners,     \* the moveHandler/upHandler closures attached to window
    resizeMode,
    rotateMode,
    aspectRatioLocked,
    isFreeDrawMode,
    selectedSigId,
    editingSigId,
    deleteConfirm,     \* deleteConfirm.sigId
    pageNum,
    snapTargets,
    snapLines,
    currentPoints,     \* FreeDrawLayer state
    isDrawing,         \* FreeDrawLayer state
    pendingLoads,      \* images whose onload has not fired yet
    nextId,            \* crypto.randomUUID(): the next fresh id
    file,              \* the selected file, NoFile for null
    pdfDoc,            \* the loaded document, NoFile for null
    totalPages,
    thumbnails,
    isProcessing,
    downloadConfirmOpen,
    pendingIO,         \* the async handlers that have not settled: what each one captured
    downloads,         \* the files handed to the browser by link.click()
    alerts,            \* the number of alert() calls
    scale,             \* zoom factor, in quarters (4 is 1.0)
    renderTaskRef,     \* renderTaskRef.current: a task id, NoTask for null
    renderRuns,        \* the calls of renderPage that have not returned
    renderTasks,       \* the state of every render task started so far, by task id
    logged,            \* the number of console.error calls of renderPage
    ev,                \* the handler that ran last
    events,            \* the number of events handled so far
    prevHistory,       \* observer: history before the last event
    sessionStart,      \* observer: overlay state at the pointer-down of the resize / rotate session
    track,             \* observer: the overlay states S0..SN of the current run of recorded mutations
    penDown            \* observer: a pointer that went down on the drawing layer is still down on it

vars == << signatures, drawings, history, historyStartRef, dragListeners, resizeMode,
           rotateMode, aspectRatioLocked, isFreeDrawMode, selectedSigId, editingSigId,
           deleteConfirm, pageNum, snapTargets, snapLines, currentPoints, isDrawing,
           pendingLoads, nextId, file, pdfDoc, totalPages, thumbnails, isProcessing,
           downloadConfirmOpen, pendingIO, downloads, alerts,
           scale, renderTaskRef, renderRuns, renderTasks, logged,
           ev, events, prevHistory, sessionStart, track, penDown >>

ioVars == << file, pdfDoc, totalPages, thumbnails, isProcessing, downloadConfirmOpen,
             pendingIO, downloads, alerts >>

renderVars == << scale, renderTaskRef, renderRuns, renderTasks, logged >>

\* renderTaskRef.current === null
NoTask == 0

\* documents: the file, its page count (doc.numPages) and its thumbnails
NoFile == "none"
DocPages(doc) == IF doc = "docA" THEN 2 ELSE 1
ThumbsOf(doc) == [i \in 1 .. DocPages(doc) |-> << doc, i >>]
\* settled: the document export that settled last, and the await that rejected (0: none)
NoPending == [download |-> << >>, image |-> << >>, load |-> << >>, settled |-> << >>]

\* signaturesRef.current after the effect that follows every render
signaturesRef == signatures

\* the overlay state {sigs: signatures, draws: drawings} of the current render
Live == [sigs |-> signatures, draws |-> drawings]

\* JSON.stringify(a) !== JSON.stringify(b) on element lists
JsonDiffers(a, b) == a # b

\* signatures.find(s => s.id === id)
HasSig(sigs, id) == \E i \in DOMAIN sigs : sigs[i].id = id
FindSig(sigs, id) == sigs[CHOOSE i \in DOMAIN sigs : sigs[i].id = id /\ \A j \in 1 .. (i - 1) : sigs[j].id # id]

\* signatures.filter(s => s.pageIndex === pageNum - 1): the elements the page renders
Rendered(id) == \E i \in DOMAIN signatures : signatures[i].id = id /\ signatures[i].pageIndex = pageNum - 1

\* prev[pageNum - 1] || []
StrokesOf(draws, pageIndex) == IF pageIndex \in DOMAIN draws THEN draws[pageIndex] ELSE << >>

\* sig.width * canvasRatio / sig.aspectRatio: the height in percent of the page height
HPct(width, aspectRatio, rect) ==
    RDiv(RMul(width, R(rect.width, rect.height)), aspectRatio)

(***************************************************************************)
(* Drag: handleDragStart.moveHandler.                                      *)
(***************************************************************************)
SNAP_THRESHOLD == R(1, 2)

\* left / centre / right of a rectangle on the x axis, top / middle / bottom on the y axis
EdgesX(x, width) == << x, RAdd(x, RDiv(width, N(2))), RAdd(x, width) >>

RECURSIVE SiblingPointsX(_, _, _, _)
SiblingPointsX(sigs, i, id, pageIndex) ==
    IF i > Len(sigs) THEN << >>
    ELSE (IF sigs[i].id = id \/ sigs[i].pageIndex # pageIndex THEN << >>
          ELSE EdgesX(sigs[i].x, sigs[i].width))
         \o SiblingPointsX(sigs, i + 1, id, pageIndex)

RECURSIVE SiblingPointsY(_, _, _, _, _)
SiblingPointsY(sigs, i, id, pageIndex, rect) ==
    IF i > Len(sigs) THEN << >>
    ELSE (IF sigs[i].id = id \/ sigs[i].pageIndex # pageIndex THEN << >>
          ELSE EdgesX(sigs[i].y, HPct(sigs[i].width, sigs[i].aspectRatio, rect)))
         \o SiblingPointsY(sigs, i + 1, id, pageIndex, rect)

RECURSIVE TargetPointsX(_, _)
TargetPointsX(targets, i) ==
    IF i > Len(targets) THEN << >>
    ELSE EdgesX(targets[i].x, targets[i].width) \o TargetPointsX(targets, i + 1)

RECURSIVE TargetPointsY(_, _)
TargetPointsY(targets, i) ==
    IF i > Len(targets) THEN << >>
    ELSE EdgesX(targets[i].y, targets[i].height) \o TargetPointsY(targets, i + 1)

PageSnapPoints == << N(0), N(50), N(100) >>
vSnapPoints(sigs, id, pageIndex, targets) ==
    PageSnapPoints \o SiblingPointsX(sigs, 1, id, pageIndex) \o TargetPointsX(targets, 1)
hSnapPoints(sigs, id, pageIndex, targets, rect) ==
    PageSnapPoints \o SiblingPointsY(sigs, 1, id, pageIndex, rect) \o TargetPointsY(targets, 1)

\* the inner loop with "nextX = target": the edge's own offset is not taken off
RECURSIVE SnapEdge_NoOffset(_, _, _, _, _)
SnapEdge_NoOffset(currentEdgePos, offset, points, i, st) ==
    IF i > Len(points) THEN st
    ELSE LET diff == RAbs(RSub(currentEdgePos, points[i]))
         IN  IF RLt(diff, st.minDiff)
             THEN SnapEdge_NoOffset(currentEdgePos, offset, points, i + 1,
                                    [minDiff |-> diff, next |-> points[i],
                                     lines |-> Append(st.lines, points[i]), snapped |-> TRUE])
             ELSE SnapEdge_NoOffset(currentEdgePos, offset, points, i + 1, st)

\* the inner loop "for (const target of vSnapPoints)" for one own edge:
\* currentEdgePos is fixed, every strictly nearer target re-snaps and adds a line
RECURSIVE SnapEdge(_, _, _, _, _)
SnapEdge(currentEdgePos, offset, points, i, st) ==
    IF i > Len(points) THEN st
    ELSE LET diff == RAbs(RSub(currentEdgePos, points[i]))
         IN  IF RLt(diff, st.minDiff)
             THEN SnapEdge(currentEdgePos, offset, points, i + 1,
                           [minDiff |-> diff, next |-> RSub(points[i], offset),
                            lines |-> Append(st.lines, points[i]), snapped |-> TRUE])
             ELSE SnapEdge(currentEdgePos, offset, points, i + 1, st)

\* the outer loop "for (const edge of myEdgesX)" with "if (snappedX) break"
RECURSIVE SnapEdges(_, _, _, _)
SnapEdges(offsets, points, k, st) ==
    IF k > Len(offsets) THEN st
    ELSE LET st2 == SnapEdge(RAdd(st.next, offsets[k]), offsets[k], points, 1, st)
         IN  IF st2.snapped THEN st2 ELSE SnapEdges(offsets, points, k + 1, st2)

\* the edges tried in the order trailing, centre, leading
SnapAxis_TrailingFirst(next, size, points) ==
    SnapEdges(<< size, RDiv(size, N(2)), N(0) >>, points, 1,
              [minDiff |-> SNAP_THRESHOLD, next |-> next, lines |-> << >>, snapped |-> FALSE])

SnapAxis(next, size, points) ==
    SnapEdges(<< N(0), RDiv(size, N(2)), size >>, points, 1,
              [minDiff |-> SNAP_THRESHOLD, next |-> next, lines |-> << >>, snapped |-> FALSE])

Clamp(v, lo, hi) == RMin(RMax(v, lo), hi)

\* a moveHandler that adds the delta to the element as the previous tick left it
DragMove_Incremental(c, p, sigs, refSigs) ==
    LET sig == FindSig(sigs, c.id)
        deltaXPct == RMul(R(p.x - c.startX, c.rect.width), N(100))
        deltaYPct == RMul(R(p.y - c.startY, c.rect.height), N(100))
        hPct == HPct(sig.width, sig.aspectRatio, c.rect)
        nextX0 == Clamp(RAdd(sig.x, deltaXPct), N(0), RSub(N(100), sig.width))
        nextY0 == Clamp(RAdd(sig.y, deltaYPct), N(0), RSub(N(100), hPct))
        sx == SnapAxis(nextX0, sig.width, vSnapPoints(refSigs, c.id, c.pageNum - 1, c.snapTargets))
        sy == SnapAxis(nextY0, hPct, hSnapPoints(refSigs, c.id, c.pageNum - 1, c.snapTargets, c.rect))
        Upd(s) == [s EXCEPT !.x = Clamp(sx.next, N(0), RSub(N(100), s.width)),
                            !.y = Clamp(sy.next, N(0), RSub(N(100), hPct))]
    IN  [sigs |-> [i \in DOMAIN sigs |-> IF sigs[i].id = c.id THEN Upd(sigs[i]) ELSE sigs[i]],
         lines |-> [i \in 1 .. Len(sx.lines) |-> [orientation |-> "vertical", position |-> sx.lines[i]]]
                   \o [i \in 1 .. Len(sy.lines) |-> [orientation |-> "horizontal", position |-> sy.lines[i]]]]

\* one run of moveHandler of the closure c for a pointer at p:
\* the new element list and the guide lines it sets
DragMove(c, p, sigs, refSigs) ==
    LET sig == c.sig
        deltaXPct == RMul(R(p.x - c.startX, c.rect.width), N(100))
        deltaYPct == RMul(R(p.y - c.startY, c.rect.height), N(100))
        hPct == HPct(sig.width, sig.aspectRatio, c.rect)
        nextX0 == Clamp(RAdd(sig.x, deltaXPct), N(0), RSub(N(100), sig.width))
        nextY0 == Clamp(RAdd(sig.y, deltaYPct), N(0), RSub(N(100), hPct))
        sx == SnapAxis(nextX0, sig.width, vSnapPoints(refSigs, c.id, c.pageNum - 1, c.snapTargets))
        sy == SnapAxis(nextY0, hPct, hSnapPoints(refSigs, c.id, c.pageNum - 1, c.snapTargets, c.rect))
        Upd(s) == [s EXCEPT !.x = Clamp(sx.next, N(0), RSub(N(100), s.width)),
                            !.y = Clamp(sy.next, N(0), RSub(N(100), hPct))]
    IN  [sigs |-> [i \in DOMAIN sigs |-> IF sigs[i].id = c.id THEN Upd(sigs[i]) ELSE sigs[i]],
         lines |-> [i \in 1 .. Len(sx.lines) |-> [orientation |-> "vertical", position |-> sx.lines[i]]]
                   \o [i \in 1 .. Len(sy.lines) |-> [orientation |-> "horizontal", position |-> sy.lines[i]]]]

\* every attached moveHandler, in the order the listeners were added
RECURSIVE DragMoves(_, _, _, _, _, _)
DragMoves(listeners, i, p, sigs, refSigs, lines) ==
    IF i > Len(listeners) THEN [sigs |-> sigs, lines |-> lines]
    ELSE LET r == DragMove(listeners[i], p, sigs, refSigs)
         IN  DragMoves(listeners, i + 1, p, r.sigs, refSigs, r.lines)

(***************************************************************************)
(* Resize: handleMove of the resize effect.                                *)
(***************************************************************************)
MinWidth == N(1)
MinHeight_Tenth == R(1, 10)
MinHeight == R(1, 2)

ResizeMove(mode, locked, p, rect, sigs) ==
    LET s == mode.startSig[1]
        handle == mode.handle
        deltaXPct == RMul(R(p.x - mode.startPos.x, rect.width), N(100))
        deltaYPct == RMul(R(p.y - mode.startPos.y, rect.height), N(100))
        \* getHPct(w, r) = (w * rect.width) / r / rect.height
        getHPct(w, r) == RDiv(RDiv(RMul(w, N(rect.width)), r), N(rect.height))
        h0 == getHPct(s.width, s.aspectRatio)
        changeW == RMin(deltaXPct, RSub(s.width, MinWidth))
        \* aspect-locked branch
        lockW == IF Includes(handle, "w") THEN RSub(s.width, changeW)
                 ELSE IF Includes(handle, "e") THEN RMax(MinWidth, RAdd(s.width, deltaXPct))
                 ELSE s.width
        lockX == IF Includes(handle, "w") THEN RAdd(s.x, changeW) ELSE s.x
        lockY == IF Includes(handle, "n")
                 THEN RSub(s.y, RSub(getHPct(lockW, s.aspectRatio), h0))
                 ELSE s.y
        \* aspect-free branch
        freeW == IF Includes(handle, "e") THEN RMax(MinWidth, RAdd(s.width, deltaXPct))
                 ELSE IF Includes(handle, "w") THEN RSub(s.width, changeW)
                 ELSE s.width
        freeX == IF ~Includes(handle, "e") /\ Includes(handle, "w") THEN RAdd(s.x, changeW) ELSE s.x
        changeH == RMin(deltaYPct, RSub(h0, MinHeight))
        freeH == IF Includes(handle, "s") THEN RMax(MinHeight, RAdd(h0, deltaYPct))
                 ELSE IF Includes(handle, "n") THEN RSub(h0, changeH)
                 ELSE h0
        freeY == IF ~Includes(handle, "s") /\ Includes(handle, "n") THEN RAdd(s.y, changeH) ELSE s.y
        wPx == RMul(RDiv(freeW, N(100)), N(rect.width))
        hPx == RMul(RDiv(freeH, N(100)), N(rect.height))
        newWidth0 == IF locked THEN lockW ELSE freeW
        newX0 == IF locked THEN lockX ELSE freeX
        newY == IF locked THEN lockY ELSE freeY
        aspectRatio == IF locked THEN s.aspectRatio ELSE RDiv(wPx, hPx)
        newWidth == IF RLt(newWidth0, MinWidth) THEN MinWidth ELSE newWidth0
        newX == IF RLt(newX0, N(0)) THEN N(0) ELSE newX0
        Upd(sig) == [sig EXCEPT !.x = newX, !.y = newY, !.width = newWidth, !.aspectRatio = aspectRatio]
    IN  [i \in DOMAIN sigs |-> IF sigs[i].id = s.id THEN Upd(sigs[i]) ELSE sigs[i]]

(***************************************************************************)
(* Rotate: handleRotateMove.                                               *)
(***************************************************************************)
\* a handleRotateMove that brings the new rotation into [0, 360)
RotateMove_Wrapped(mode, currentAngle, sigs) ==
    LET newRotation == (mode.initialRotation + (currentAngle - mode.startAngle)) % 360
    IN  [i \in DOMAIN sigs |-> IF sigs[i].id = mode.sigId
                               THEN [sigs[i] EXCEPT !.rotation = newRotation] ELSE sigs[i]]

RotateMove(mode, currentAngle, sigs) ==
    LET deltaAngle == currentAngle - mode.startAngle
        newRotation == mode.initialRotation + deltaAngle
        Upd(s) == [s EXCEPT !.rotation = newRotation]
    IN  [i \in DOMAIN sigs |-> IF sigs[i].id = mode.sigId THEN Upd(sigs[i]) ELSE sigs[i]]

(***************************************************************************)
(* Observer of undo / redo round trips.  track.trail holds the overlay     *)
(* states S0..SN produced by the current run of recorded mutations, each   *)
(* performed with nothing else in flight; track.pos is the index of the    *)
(* state in which that many undo() and redo() calls should have left the   *)
(* editor; track.base is the length of past at S0 and track.low the lowest *)
(* pos since the last mutation.  An empty trail means "not tracked": some  *)
(* operation ran while a session or an image load was in flight.           *)
(***************************************************************************)
Idle ==
    /\ dragListeners = << >>
    /\ ~resizeMode.isResizing
    /\ ~rotateMode.isRotating
    /\ pendingLoads = {}
    /\ ~isDrawing

\* the single operation in flight, "none" or "mixed"
InFlight ==
    LET n == Len(dragListeners) + (IF resizeMode.isResizing THEN 1 ELSE 0)
             + (IF rotateMode.isRotating THEN 1 ELSE 0) + Cardinality(pendingLoads)
             + (IF isDrawing THEN 1 ELSE 0)
    IN  IF n = 0 THEN "none"
        ELSE IF n > 1 THEN "mixed"
        ELSE IF pendingLoads # {} THEN "load"
        ELSE "gesture"

Continues(kind, e) ==
    \/ kind = "load" /\ e = "imgOnload"
    \/ kind = "gesture" /\ e \in {"pointerMove", "pointerUp", "mouseLeave"}

Untracked == [trail |-> << >>, pos |-> 0, base |-> 0, low |-> 0]
TrackFrom(live, past) == [trail |-> << live >>, pos |-> 1, base |-> Len(past), low |-> 1]

Observe ==
    /\ events' = events + 1
    /\ penDown' = (IF ev' = "handleStart" THEN TRUE
                   ELSE IF ev' \in {"pointerUp", "mouseLeave", "pointerReleased"} THEN FALSE
                   ELSE penDown)
    /\ prevHistory' = history
    /\ LET live2 == [sigs |-> signatures', draws |-> drawings']
           past2 == history'.past
           restart == TrackFrom(live2, past2)
           \* arrival in an idle state after one operation
           arrive ==
               IF Len(past2) = track.base + track.pos
               THEN [trail |-> Append(SubSeq(track.trail, 1, track.pos), live2),
                     pos |-> track.pos + 1, base |-> track.base, low |-> track.pos + 1]
               ELSE IF Len(past2) = track.base + track.pos - 1 /\ live2 = track.trail[track.pos]
                         /\ history'.future = history.future
               THEN track
               ELSE restart
       IN  track' =
             IF track.trail = << >> THEN (IF Idle' THEN restart ELSE Untracked)
             ELSE IF ~Idle /\ ~Continues(InFlight, ev') THEN (IF Idle' THEN restart ELSE Untracked)
             ELSE IF ~Idle' THEN track
             ELSE IF Idle /\ ev' = "undo"
                  THEN (IF track.pos > 1
                        THEN [track EXCEPT !.pos = track.pos - 1,
                                           !.low = IF track.pos - 1 < track.low THEN track.pos - 1 ELSE track.low]
                        ELSE IF history' = history THEN track ELSE restart)
             ELSE IF Idle /\ ev' = "redo"
                  THEN (IF track.pos < Len(track.trail)
                        THEN [track EXCEPT !.pos = track.pos + 1]
                        ELSE IF history' = history THEN track ELSE restart)
             ELSE arrive

(***************************************************************************)
(* The state after a document has been loaded (handleFileChange).          *)
(***************************************************************************)
NoResize == [isResizing |-> FALSE, handle |-> NULL, startPos |-> [x |-> 0, y |-> 0], startSig |-> << >>]
NoRotate == [isRotating |-> FALSE, startAngle |-> 0, initialRotation |-> 0, center |-> << >>, sigId |-> NoId]
NoDrawings == [pg \in {} |-> << >>]

\* the form-field rectangles of the page, in percent of the viewport
PageAnnotations == << [x |-> N(10), y |-> N(10), width |-> N(30), height |-> N(5)] >>

Init ==
    /\ signatures = << >>
    /\ drawings = NoDrawings
    /\ history = [past |-> << >>, future |-> << >>]
    /\ historyStartRef = << >>
    /\ dragListeners = << >>
    /\ resizeMode = NoResize
    /\ rotateMode = NoRotate
    /\ aspectRatioLocked = TRUE
    /\ isFreeDrawMode = FALSE
    /\ selectedSigId = NoId
    /\ editingSigId = NoId
    /\ deleteConfirm = NoId
    /\ pageNum = 1
    /\ snapTargets = PageAnnotations
    /\ snapLines = << >>
    /\ currentPoints = << >>
    /\ isDrawing = FALSE
    /\ pendingLoads = {}
    /\ nextId = 1
    /\ file = "docA"
    /\ pdfDoc = "docA"
    /\ totalPages = DocPages("docA")
    /\ thumbnails = ThumbsOf("docA")
    /\ isProcessing = FALSE
    /\ downloadConfirmOpen = FALSE
    /\ pendingIO = NoPending
    /\ downloads = << >>
    /\ alerts = 0
    /\ scale = 4
    /\ renderTaskRef = NoTask
    /\ renderRuns = << >>
    /\ renderTasks = << >>
    /\ logged = 0
    /\ ev = "init"
    /\ events = 0
    /\ prevHistory = [past |-> << >>, future |-> << >>]
    /\ sessionStart = [resize |-> << >>, rotate |-> << >>]
    /\ track = TrackFrom([sigs |-> << >>, draws |-> NoDrawings], << >>)
    /\ penDown = FALSE

sessVars == << historyStartRef, dragListeners, resizeMode, rotateMode, snapLines, sessionStart >>
drawVars == << currentPoints, isDrawing >>
modeVars == << aspectRatioLocked, isFreeDrawMode, pageNum, snapTargets >>
pickVars == << selectedSigId, editingSigId, deleteConfirm >>

(***************************************************************************)
(* History helpers.                                                        *)
(***************************************************************************)
\* saveToHistory that keeps the redo branch: future: prev.future
saveToHistory_KeepsFuture(prev) == [past |-> Append(prev.past, Live), future |-> prev.future]

\* undo that forgets to put the current state on the future stack
undo_DropsCurrent ==
    /\ events < MaxEvents
    /\ ev' = "undo"
    /\ IF Len(history.past) = 0
       THEN UNCHANGED << history, signatures, drawings >>
       ELSE LET previous == history.past[Len(history.past)]
                newPast == SubSeq(history.past, 1, Len(history.past) - 1)
            IN  /\ history' = [past |-> newPast, future |-> history.future]
                /\ signatures' = previous.sigs
                /\ drawings' = previous.draws
    /\ UNCHANGED << sessVars, drawVars, modeVars, pickVars, pendingLoads, nextId >>
    /\ UNCHANGED ioVars
    /\ UNCHANGED renderVars
    /\ Observe

\* redo whose early return is missing around the history update: with nothing to redo it
\* still records the current state on the past stack
redo_NoGuard ==
    /\ events < MaxEvents
    /\ ev' = "redo"
    /\ IF Len(history.future) = 0
       THEN /\ history' = [past |-> Append(history.past, Live), future |-> << >>]
            /\ UNCHANGED << signatures, drawings >>
       ELSE LET next == history.future[1]
                newFuture == Tail(history.future)
            IN  /\ history' = [past |-> Append(history.past, Live), future |-> newFuture]
                /\ signatures' = next.sigs
                /\ drawings' = next.draws
    /\ UNCHANGED << sessVars, drawVars, modeVars, pickVars, pendingLoads, nextId >>
    /\ UNCHANGED ioVars
    /\ UNCHANGED renderVars
    /\ Observe

\* setHistory(prev => ({past: [...prev.past, {sigs: signatures, draws: drawings}], future: []}))
saveToHistory(prev) == [past |-> Append(prev.past, Live), future |-> << >>]

undo ==
    /\ events < MaxEvents
    /\ ev' = "undo"
    /\ IF Len(history.past) = 0
       THEN UNCHANGED << history, signatures, drawings >>
       ELSE LET previous == history.past[Len(history.past)]
                newPast == SubSeq(history.past, 1, Len(history.past) - 1)
            IN  /\ history' = [past |-> newPast, future |-> << Live >> \o history.future]
                /\ signatures' = previous.sigs
                /\ drawings' = previous.draws
    /\ UNCHANGED << sessVars, drawVars, modeVars, pickVars, pendingLoads, nextId >>
    /\ UNCHANGED ioVars
    /\ UNCHANGED renderVars
    /\ Observe

\* redo that leaves the restored entry on the future stack
redo_KeepsFuture ==
    /\ events < MaxEvents
    /\ ev' = "redo"
    /\ IF Len(history.future) = 0
       THEN UNCHANGED << history, signatures, drawings >>
       ELSE LET next == history.future[1]
                newFuture == history.future
            IN  /\ history' = [past |-> Append(history.past, Live), future |-> newFuture]
                /\ signatures' = next.sigs
                /\ drawings' = next.draws
    /\ UNCHANGED << sessVars, drawVars, modeVars, pickVars, pendingLoads, nextId >>
    /\ UNCHANGED ioVars
    /\ UNCHANGED renderVars
    /\ Observe

redo ==
    /\ events < MaxEvents
    /\ ev' = "redo"
    /\ IF Len(history.future) = 0
       THEN UNCHANGED << history, signatures, drawings >>
       ELSE LET next == history.future[1]
                newFuture == Tail(history.future)
            IN  /\ history' = [past |-> Append(history.past, Live), future |-> newFuture]
                /\ signatures' = next.sigs
                /\ drawings' = next.draws
    /\ UNCHANGED << sessVars, drawVars, modeVars, pickVars, pendingLoads, nextId >>
    /\ UNCHANGED ioVars
    /\ UNCHANGED renderVars
    /\ Observe

(***************************************************************************)
(* Signature creation, redraw and style.                                   *)
(***************************************************************************)
\* handleSaveSignature up to "img.src = dataUrl"; the closure of img.onload keeps
\* editingSigId and pageNum of this render
handleSaveSignature(dataUrl) ==
    /\ Len(history.past) < MaxPast
    /\ Cardinality(pendingLoads) < MaxPending
    /\ editingSigId = NoId => nextId <= MaxIds
    /\ events < MaxEvents
    /\ ev' = "handleSaveSignature"
    /\ history' = saveToHistory(history)
    /\ pendingLoads' = pendingLoads \cup {[dataUrl |-> dataUrl, editingSigId |-> editingSigId, pageNum |-> pageNum]}
    /\ UNCHANGED << signatures, drawings, sessVars, drawVars, modeVars, pickVars, nextId >>
    /\ UNCHANGED ioVars
    /\ UNCHANGED renderVars
    /\ Observe

\* img.onload of handleSaveSignature
imgOnload(load) ==
    /\ load \in pendingLoads
    /\ events < MaxEvents
    /\ ev' = "imgOnload"
    /\ pendingLoads' = pendingLoads \ {load}
    /\ LET aspectRatio == ImageAspect(load.dataUrl)
           Redraw(s) == [s EXCEPT !.dataUrl = load.dataUrl, !.aspectRatio = aspectRatio]
           newSig == [id |-> nextId, dataUrl |-> load.dataUrl, pageIndex |-> load.pageNum - 1,
                      x |-> N(40), y |-> N(40), width |-> N(20), aspectRatio |-> aspectRatio,
                      rotation |-> 0, opacity |-> N(1)]
       IN  IF load.editingSigId # NoId
           THEN /\ signatures' = [i \in DOMAIN signatures |-> IF signatures[i].id = load.editingSigId THEN Redraw(signatures[i]) ELSE signatures[i]]
                /\ editingSigId' = NoId
                /\ UNCHANGED << selectedSigId, nextId >>
           ELSE /\ signatures' = Append(signatures, newSig)
                /\ selectedSigId' = newSig.id
                /\ nextId' = nextId + 1
                /\ UNCHANGED editingSigId
    /\ UNCHANGED << drawings, history, sessVars, drawVars, modeVars, deleteConfirm >>
    /\ UNCHANGED ioVars
    /\ UNCHANGED renderVars
    /\ Observe

handleSaveStyle(dataUrl, opacity) ==
    /\ editingSigId # NoId
    /\ Len(history.past) < MaxPast
    /\ events < MaxEvents
    /\ ev' = "handleSaveStyle"
    /\ history' = saveToHistory(history)
    /\ LET Restyle(s) == [s EXCEPT !.dataUrl = dataUrl, !.opacity = opacity]
       IN  signatures' = [i \in DOMAIN signatures |-> IF signatures[i].id = editingSigId THEN Restyle(signatures[i]) ELSE signatures[i]]
    /\ editingSigId' = NoId
    /\ UNCHANGED << drawings, sessVars, drawVars, modeVars, selectedSigId, deleteConfirm, pendingLoads, nextId >>
    /\ UNCHANGED ioVars
    /\ UNCHANGED renderVars
    /\ Observe

\* onDoubleClick of a rendered element
handleDoubleClick(id) ==
    /\ Rendered(id)
    /\ ~isFreeDrawMode
    /\ events < MaxEvents
    /\ ev' = "handleDoubleClick"
    /\ editingSigId' = id
    /\ UNCHANGED << signatures, drawings, history, sessVars, drawVars, modeVars, selectedSigId,
                    deleteConfirm, pendingLoads, nextId >>
    /\ UNCHANGED ioVars
    /\ UNCHANGED renderVars
    /\ Observe

handleCancelSignature ==
    /\ editingSigId # NoId
    /\ events < MaxEvents
    /\ ev' = "handleCancelSignature"
    /\ editingSigId' = NoId
    /\ UNCHANGED << signatures, drawings, history, sessVars, drawVars, modeVars, selectedSigId,
                    deleteConfirm, pendingLoads, nextId >>
    /\ UNCHANGED ioVars
    /\ UNCHANGED renderVars
    /\ Observe

(***************************************************************************)
(* Delete and duplicate (the toolbar of the selected element).             *)
(***************************************************************************)
Toolbar(id) == Rendered(id) /\ selectedSigId = id /\ ~isFreeDrawMode

\* the delete button: setDeleteConfirm({ isOpen: true, sigId: sig.id })
requestDelete(id) ==
    /\ Toolbar(id)
    /\ events < MaxEvents
    /\ ev' = "requestDelete"
    /\ deleteConfirm' = id
    /\ UNCHANGED << signatures, drawings, history, sessVars, drawVars, modeVars, selectedSigId,
                    editingSigId, pendingLoads, nextId >>
    /\ UNCHANGED ioVars
    /\ UNCHANGED renderVars
    /\ Observe

\* signatures.filter(s => s.id !== id)
RECURSIVE FilterOut(_, _)
FilterOut(sigs, id) ==
    IF sigs = << >> THEN << >>
    ELSE (IF Head(sigs).id = id THEN << >> ELSE << Head(sigs) >>) \o FilterOut(Tail(sigs), id)

\* handleConfirmDelete with deleteSignature(deleteConfirm.sigId)
handleConfirmDelete ==
    /\ deleteConfirm # NoId
    /\ Len(history.past) < MaxPast
    /\ events < MaxEvents
    /\ ev' = "deleteSignature"
    /\ history' = saveToHistory(history)
    /\ signatures' = FilterOut(signatures, deleteConfirm)
    /\ selectedSigId' = IF selectedSigId = deleteConfirm THEN NoId ELSE selectedSigId
    /\ deleteConfirm' = NoId
    /\ UNCHANGED << drawings, sessVars, drawVars, modeVars, editingSigId, pendingLoads, nextId >>
    /\ UNCHANGED ioVars
    /\ UNCHANGED renderVars
    /\ Observe

\* the offset without its cap: original + 2
DuplicateOffset_NoCap(v) == RAdd(v, N(2))

\* the position of the copy: Math.min(original + 2, 90)
DuplicateOffset(v) == RMin(RAdd(v, N(2)), N(90))

\* duplicate that records the history entry after the copy has been appended
handleDuplicateSignature_RecordsAfter(sigId) ==
    /\ Toolbar(sigId)
    /\ HasSig(signatures, sigId)
    /\ Len(history.past) < MaxPast
    /\ nextId <= MaxIds
    /\ events < MaxEvents
    /\ ev' = "handleDuplicateSignature"
    /\ LET originalSig == FindSig(signatures, sigId)
           newSig == [originalSig EXCEPT !.id = nextId,
                                         !.x = DuplicateOffset(originalSig.x),
                                         !.y = DuplicateOffset(originalSig.y)]
       IN  /\ signatures' = Append(signatures, newSig)
           /\ selectedSigId' = newSig.id
    /\ history' = [past |-> Append(history.past, [sigs |-> signatures', draws |-> drawings]),
                   future |-> << >>]
    /\ nextId' = nextId + 1
    /\ UNCHANGED << drawings, sessVars, drawVars, modeVars, editingSigId, deleteConfirm, pendingLoads >>
    /\ UNCHANGED ioVars
    /\ UNCHANGED renderVars
    /\ Observe

\* a duplicate that spreads the original and keeps its id
handleDuplicateSignature_KeepsId(sigId) ==
    /\ Toolbar(sigId)
    /\ HasSig(signatures, sigId)
    /\ Len(history.past) < MaxPast
    /\ nextId <= MaxIds
    /\ events < MaxEvents
    /\ ev' = "handleDuplicateSignature"
    /\ history' = saveToHistory(history)
    /\ LET originalSig == FindSig(signatures, sigId)
           newSig == [originalSig EXCEPT !.id = originalSig.id,
                                         !.x = DuplicateOffset(originalSig.x),
                                         !.y = DuplicateOffset(originalSig.y)]
       IN  /\ signatures' = Append(signatures, newSig)
           /\ selectedSigId' = newSig.id
    /\ nextId' = nextId + 1
    /\ UNCHANGED << drawings, sessVars, drawVars, modeVars, editingSigId, deleteConfirm, pendingLoads >>
    /\ UNCHANGED ioVars
    /\ UNCHANGED renderVars
    /\ Observe

handleDuplicateSignature(sigId) ==
    /\ Toolbar(sigId)
    /\ HasSig(signatures, sigId)
    /\ Len(history.past) < MaxPast
    /\ nextId <= MaxIds
    /\ events < MaxEvents
    /\ ev' = "handleDuplicateSignature"
    /\ history' = saveToHistory(history)
    /\ LET originalSig == FindSig(signatures, sigId)
           newSig == [originalSig EXCEPT !.id = nextId,
                                         !.x = DuplicateOffset(originalSig.x),
                                         !.y = DuplicateOffset(originalSig.y)]
       IN  /\ signatures' = Append(signatures, newSig)
           /\ selectedSigId' = newSig.id
    /\ nextId' = nextId + 1
    /\ UNCHANGED << drawings, sessVars, drawVars, modeVars, editingSigId, deleteConfirm, pendingLoads >>
    /\ UNCHANGED ioVars
    /\ UNCHANGED renderVars
    /\ Observe

\* the lock button of the toolbar: setAspectRatioLocked(!aspectRatioLocked)
toggleAspectRatioLocked ==
    /\ \E id \in Ids : Toolbar(id)
    /\ events < MaxEvents
    /\ ev' = "toggleAspectRatioLocked"
    /\ aspectRatioLocked' = ~aspectRatioLocked
    /\ UNCHANGED << signatures, drawings, history, sessVars, drawVars, isFreeDrawMode, pageNum,
                    snapTargets, pickVars, pendingLoads, nextId >>
    /\ UNCHANGED ioVars
    /\ UNCHANGED renderVars
    /\ Observe

(***************************************************************************)
(* Free drawing.                                                           *)
(***************************************************************************)
BrushColor == "#000000"
BrushWidth == 3

handleToggleFreeDraw ==
    /\ events < MaxEvents
    /\ ev' = "handleToggleFreeDraw"
    /\ isFreeDrawMode' = ~isFreeDrawMode
    /\ selectedSigId' = IF ~isFreeDrawMode THEN NoId ELSE selectedSigId
    /\ UNCHANGED << signatures, drawings, history, sessVars, drawVars, aspectRatioLocked, pageNum,
                    snapTargets, editingSigId, deleteConfirm, pendingLoads, nextId >>
    /\ UNCHANGED ioVars
    /\ UNCHANGED renderVars
    /\ Observe

\* setDrawings(prev => ({...prev, [pageNum - 1]: strokes}))
SetPage(prev, pageIndex, strokes) ==
    [pg \in DOMAIN prev \cup {pageIndex} |-> IF pg = pageIndex THEN strokes ELSE prev[pg]]

\* the button of the free-draw toolbar
handleClearPage ==
    /\ isFreeDrawMode
    /\ Len(history.past) < MaxPast
    /\ events < MaxEvents
    /\ ev' = "handleClearPage"
    /\ history' = saveToHistory(history)
    /\ drawings' = SetPage(drawings, pageNum - 1, << >>)
    /\ UNCHANGED << signatures, sessVars, drawVars, modeVars, pickVars, pendingLoads, nextId >>
    /\ UNCHANGED ioVars
    /\ UNCHANGED renderVars
    /\ Observe

\* getNormalizedPos
getNormalizedPos(p, rect) == [x |-> R(p.x - rect.left, rect.width), y |-> R(p.y - rect.top, rect.height)]

\* FreeDrawLayer.handleStart: mousedown / touchstart on the drawing layer
handleStart(p) ==
    /\ isFreeDrawMode
    /\ Len(history.past) < MaxPast
    /\ events < MaxEvents
    /\ ev' = "handleStart"
    /\ isDrawing' = TRUE
    /\ currentPoints' = << getNormalizedPos(p, canvasRect) >>
    /\ UNCHANGED << signatures, drawings, history, sessVars, modeVars, pickVars, pendingLoads, nextId >>
    /\ UNCHANGED ioVars
    /\ UNCHANGED renderVars
    /\ Observe

(***************************************************************************)
(* Pointer-down on an element, a resize handle or the rotation handle.     *)
(***************************************************************************)
\* onMouseDown / onTouchStart of a rendered element (pointer-events-none in draw mode)
handleDragStart(id, p) ==
    /\ ~isFreeDrawMode
    /\ ~(resizeMode.isResizing \/ rotateMode.isRotating)
    /\ Len(history.past) < MaxPast
    /\ Len(dragListeners) < MaxDragListeners
    /\ events < MaxEvents
    /\ ev' = "handleDragStart"
    /\ selectedSigId' = id
    /\ historyStartRef' = << [sigs |-> signaturesRef, draws |-> drawings] >>
    /\ dragListeners' =
          IF HasSig(signatures, id)
          THEN Append(dragListeners,
                      [id |-> id, sig |-> FindSig(signatures, id), startX |-> p.x, startY |-> p.y,
                       rect |-> canvasRect, pageNum |-> pageNum, snapTargets |-> snapTargets,
                       signatures |-> signatures, drawings |-> drawings])
          ELSE dragListeners
    /\ UNCHANGED << signatures, drawings, history, resizeMode, rotateMode, snapLines, sessionStart,
                    drawVars, modeVars, editingSigId, deleteConfirm, pendingLoads, nextId >>
    /\ UNCHANGED ioVars
    /\ UNCHANGED renderVars
    /\ Observe

\* onMouseDown / onTouchStart of a corner handle of the selected element
handleResizeStart(sig, handle, p) ==
    /\ Toolbar(sig.id)
    /\ Len(history.past) < MaxPast
    /\ events < MaxEvents
    /\ ev' = "handleResizeStart"
    /\ historyStartRef' = << [sigs |-> signaturesRef, draws |-> drawings] >>
    /\ resizeMode' = [isResizing |-> TRUE, handle |-> handle, startPos |-> [x |-> p.x, y |-> p.y],
                      startSig |-> << sig >>]
    /\ sessionStart' = [sessionStart EXCEPT !.resize = << Live >>]
    /\ UNCHANGED << signatures, drawings, history, dragListeners, rotateMode, snapLines,
                    drawVars, modeVars, pickVars, pendingLoads, nextId >>
    /\ UNCHANGED ioVars
    /\ UNCHANGED renderVars
    /\ Observe

\* the centre of the element's box in client pixels (wrapper.getBoundingClientRect())
CenterOf(sig, rect) ==
    [x |-> RAdd(N(rect.left), RMul(RDiv(RAdd(sig.x, RDiv(sig.width, N(2))), N(100)), N(rect.width))),
     y |-> RAdd(N(rect.top), RMul(RDiv(RAdd(sig.y, RDiv(HPct(sig.width, sig.aspectRatio, rect), N(2))), N(100)),
                                  N(rect.height)))]

\* onMouseDown / onTouchStart of the rotation handle
handleRotateStart(sig, p) ==
    /\ Toolbar(sig.id)
    /\ Len(history.past) < MaxPast
    /\ events < MaxEvents
    /\ ev' = "handleRotateStart"
    /\ historyStartRef' = << [sigs |-> signaturesRef, draws |-> drawings] >>
    /\ rotateMode' = [isRotating |-> TRUE, startAngle |-> Atan2Deg(p), initialRotation |-> sig.rotation,
                      center |-> << CenterOf(sig, canvasRect) >>, sigId |-> sig.id]
    /\ sessionStart' = [sessionStart EXCEPT !.rotate = << Live >>]
    /\ UNCHANGED << signatures, drawings, history, dragListeners, resizeMode, snapLines,
                    drawVars, modeVars, pickVars, pendingLoads, nextId >>
    /\ UNCHANGED ioVars
    /\ UNCHANGED renderVars
    /\ Observe

(***************************************************************************)
(* mousemove / touchmove: the drawing layer and every listener on window.  *)
(***************************************************************************)
ResizeListening == resizeMode.isResizing /\ resizeMode.startSig # << >>
RotateListening == rotateMode.isRotating /\ rotateMode.center # << >>
LayerListening == isFreeDrawMode /\ isDrawing

pointerMove(p) ==
    /\ dragListeners # << >> \/ ResizeListening \/ RotateListening \/ LayerListening
    /\ LayerListening => Len(currentPoints) < MaxPoints
    /\ events < MaxEvents
    /\ ev' = "pointerMove"
    /\ currentPoints' = IF LayerListening
                        THEN Append(currentPoints, getNormalizedPos(p, canvasRect))
                        ELSE currentPoints
    /\ LET d == DragMoves(dragListeners, 1, p, signatures, signaturesRef, snapLines)
           r == IF ResizeListening
                THEN ResizeMove(resizeMode, aspectRatioLocked, p, canvasRect, d.sigs)
                ELSE d.sigs
           t == IF RotateListening THEN RotateMove(rotateMode, Atan2Deg(p), r) ELSE r
       IN  /\ signatures' = t
           /\ snapLines' = d.lines
    /\ UNCHANGED << drawings, history, historyStartRef, dragListeners, resizeMode, rotateMode,
                    sessionStart, isDrawing, modeVars, pickVars, pendingLoads, nextId >>
    /\ UNCHANGED ioVars
    /\ UNCHANGED renderVars
    /\ Observe

(***************************************************************************)
(* mouseup / touchend: FreeDrawLayer.handleEnd, then upHandler of every    *)
(* drag closure, handleUp of the resize effect and handleRotateUp.         *)
(***************************************************************************)
\* a handleAddStroke that puts the new stroke under the strokes of the page
handleAddStroke_First(prev, stroke) ==
    SetPage(prev, pageNum - 1, << stroke >> \o StrokesOf(prev, pageNum - 1))

\* handleAddStroke(stroke): the drawings it sets
handleAddStroke(prev, stroke) ==
    SetPage(prev, pageNum - 1, Append(StrokesOf(prev, pageNum - 1), stroke))

\* handleEnd that commits whenever a point was captured: currentPoints.length > 0
StrokeCommitted_AnyPoint == LayerListening /\ Len(currentPoints) > 0

\* handleEnd calls onAddStroke
StrokeCommitted == LayerListening /\ Len(currentPoints) > 1

\* "Commit to history if changed" of one up handler
Commit(prev) ==
    IF historyStartRef # << >> /\ JsonDiffers(historyStartRef[1].sigs, signaturesRef)
    THEN [past |-> Append(prev.past, [sigs |-> historyStartRef[1].sigs, draws |-> historyStartRef[1].draws]),
          future |-> << >>]
    ELSE prev

RECURSIVE Commits(_, _)
Commits(n, prev) == IF n = 0 THEN prev ELSE Commits(n - 1, Commit(prev))

UpListeners ==
    Len(dragListeners) + (IF ResizeListening THEN 1 ELSE 0) + (IF RotateListening THEN 1 ELSE 0)

pointerUp_KeepsListeners ==
    /\ dragListeners # << >> \/ ResizeListening \/ RotateListening \/ LayerListening
    /\ events < MaxEvents
    /\ ev' = "pointerUp"
    /\ isDrawing' = IF LayerListening THEN FALSE ELSE isDrawing
    /\ currentPoints' = IF LayerListening THEN << >> ELSE currentPoints
    /\ drawings' = IF StrokeCommitted
                   THEN handleAddStroke(drawings, [points |-> currentPoints, color |-> BrushColor, width |-> BrushWidth])
                   ELSE drawings
    /\ history' = Commits(UpListeners, IF StrokeCommitted THEN saveToHistory(history) ELSE history)
    /\ snapLines' = IF dragListeners # << >> THEN << >> ELSE snapLines
    /\ dragListeners' = dragListeners
    /\ resizeMode' = IF ResizeListening THEN NoResize ELSE resizeMode
    /\ rotateMode' = IF RotateListening
                     THEN [rotateMode EXCEPT !.isRotating = FALSE, !.center = << >>, !.sigId = NoId]
                     ELSE rotateMode
    /\ UNCHANGED << signatures, historyStartRef, sessionStart, modeVars, pickVars, pendingLoads, nextId >>
    /\ UNCHANGED ioVars
    /\ UNCHANGED renderVars
    /\ Observe

pointerUp ==
    /\ dragListeners # << >> \/ ResizeListening \/ RotateListening \/ LayerListening
    /\ events < MaxEvents
    /\ ev' = "pointerUp"
    /\ isDrawing' = IF LayerListening THEN FALSE ELSE isDrawing
    /\ currentPoints' = IF LayerListening THEN << >> ELSE currentPoints
    /\ drawings' = IF StrokeCommitted
                   THEN handleAddStroke(drawings, [points |-> currentPoints, color |-> BrushColor, width |-> BrushWidth])
                   ELSE drawings
    /\ history' = Commits(UpListeners, IF StrokeCommitted THEN saveToHistory(history) ELSE history)
    /\ snapLines' = IF dragListeners # << >> THEN << >> ELSE snapLines
    /\ dragListeners' = << >>
    /\ resizeMode' = IF ResizeListening THEN NoResize ELSE resizeMode
    /\ rotateMode' = IF RotateListening
                     THEN [rotateMode EXCEPT !.isRotating = FALSE, !.center = << >>, !.sigId = NoId]
                     ELSE rotateMode
    /\ UNCHANGED << signatures, historyStartRef, sessionStart, modeVars, pickVars, pendingLoads, nextId >>
    /\ UNCHANGED ioVars
    /\ UNCHANGED renderVars
    /\ Observe

\* onMouseLeave of the drawing layer: handleEnd alone
mouseLeave ==
    /\ LayerListening
    /\ events < MaxEvents
    /\ ev' = "mouseLeave"
    /\ isDrawing' = FALSE
    /\ currentPoints' = << >>
    /\ drawings' = IF StrokeCommitted
                   THEN handleAddStroke(drawings, [points |-> currentPoints, color |-> BrushColor, width |-> BrushWidth])
                   ELSE drawings
    /\ history' = IF StrokeCommitted THEN saveToHistory(history) ELSE history
    /\ UNCHANGED << signatures, sessVars, modeVars, pickVars, pendingLoads, nextId >>
    /\ UNCHANGED ioVars
    /\ UNCHANGED renderVars
    /\ Observe

\* mouseup / touchend / mouseleave that no handler receives: the drawing layer is
\* pointer-events-none outside draw mode, and no session listens on window
pointerReleased ==
    /\ penDown
    /\ ~(dragListeners # << >> \/ ResizeListening \/ RotateListening \/ LayerListening)
    /\ events < MaxEvents
    /\ ev' = "pointerReleased"
    /\ UNCHANGED << signatures, drawings, history, sessVars, drawVars, modeVars, pickVars, pendingLoads, nextId >>
    /\ UNCHANGED ioVars
    /\ UNCHANGED renderVars
    /\ Observe

(***************************************************************************)
(* Page render: the effect on [pdfDoc, pageNum, scale] and the awaits of   *)
(* renderPage, one action for each completion.                             *)
(***************************************************************************)
\* the calls of renderPage that can be suspended at the same time
MaxRuns == 3

\* page.getAnnotations() of a page, as percent rectangles
AnnotationsOf(page) == IF page = 1 THEN PageAnnotations ELSE << >>

\* renderTask.cancel(): a running task stops drawing; its promise rejects later
CancelTask(tasks, t) ==
    IF t # NoTask /\ tasks[t] = "running" THEN [tasks EXCEPT ![t] = "cancelled"] ELSE tasks

\* the render tasks drawing on the canvas
RunningTasks == { t \in DOMAIN renderTasks : renderTasks[t] = "running" }

RemoveRun(runs, i) == SubSeq(runs, 1, i - 1) \o SubSeq(runs, i + 1, Len(runs))

\* the cleanup of the previous effect and the synchronous part of the new renderPage,
\* when a dependency changes
RerunRender(newFile, newDoc, newPage, newScale) ==
    IF << newDoc, newPage, newScale >> = << pdfDoc, pageNum, scale >>
    THEN UNCHANGED << renderTaskRef, renderRuns, renderTasks >>
    ELSE /\ renderTaskRef' = renderTaskRef
         /\ renderTasks' = IF pdfDoc # NoFile \/ (newDoc # NoFile /\ newFile # NoFile)
                           THEN CancelTask(renderTasks, renderTaskRef)
                           ELSE renderTasks
         /\ renderRuns' = IF newDoc # NoFile /\ newFile # NoFile
                          THEN Append(renderRuns,
                                      [page |-> newPage, scale |-> newScale, task |-> NoTask,
                                       pc |-> IF renderTaskRef # NoTask THEN "cancel" ELSE "getPage"])
                          ELSE renderRuns

\* setScale(s => Math.min(s + 0.25, 3.0))
handleZoomIn ==
    /\ file # NoFile
    /\ ~downloadConfirmOpen
    /\ Len(renderRuns) < MaxRuns
    /\ events < MaxEvents
    /\ ev' = "handleZoomIn"
    /\ scale' = (IF scale + 1 < 12 THEN scale + 1 ELSE 12)
    /\ RerunRender(file, pdfDoc, pageNum, scale')
    /\ UNCHANGED << signatures, drawings, history, sessVars, drawVars, modeVars, pickVars, pendingLoads, nextId >>
    /\ UNCHANGED ioVars
    /\ UNCHANGED logged
    /\ Observe

\* setScale(s => Math.max(s - 0.25, 0.5))
handleZoomOut ==
    /\ file # NoFile
    /\ ~downloadConfirmOpen
    /\ Len(renderRuns) < MaxRuns
    /\ events < MaxEvents
    /\ ev' = "handleZoomOut"
    /\ scale' = (IF scale - 1 > 2 THEN scale - 1 ELSE 2)
    /\ RerunRender(file, pdfDoc, pageNum, scale')
    /\ UNCHANGED << signatures, drawings, history, sessVars, drawVars, modeVars, pickVars, pendingLoads, nextId >>
    /\ UNCHANGED ioVars
    /\ UNCHANGED logged
    /\ Observe

\* await renderTaskRef.current.cancel() resumes
cancelSettles(i) ==
    /\ i \in DOMAIN renderRuns
    /\ renderRuns[i].pc = "cancel"
    /\ events < MaxEvents
    /\ ev' = "cancelSettles"
    /\ renderRuns' = [renderRuns EXCEPT ![i].pc = "getPage"]
    /\ UNCHANGED << signatures, drawings, history, sessVars, drawVars, modeVars, pickVars, pendingLoads, nextId >>
    /\ UNCHANGED ioVars
    /\ UNCHANGED << scale, renderTaskRef, renderTasks, logged >>
    /\ Observe

\* await pdfDoc.getPage(pageNum) settles: page.render starts a task and the ref is set
getPageSettles(i, ok) ==
    /\ i \in DOMAIN renderRuns
    /\ renderRuns[i].pc = "getPage"
    /\ events < MaxEvents
    /\ IF ok
       THEN /\ ev' = "getPageSettles"
            /\ renderTasks' = Append(renderTasks, "running")
            /\ renderTaskRef' = Len(renderTasks) + 1
            /\ renderRuns' = [renderRuns EXCEPT ![i].pc = "render", ![i].task = Len(renderTasks) + 1]
            /\ logged' = logged
       ELSE /\ ev' = "getPageFails"
            /\ renderRuns' = RemoveRun(renderRuns, i)
            /\ logged' = logged + 1
            /\ UNCHANGED << renderTasks, renderTaskRef >>
    /\ UNCHANGED << signatures, drawings, history, sessVars, drawVars, modeVars, pickVars, pendingLoads, nextId >>
    /\ UNCHANGED ioVars
    /\ UNCHANGED scale
    /\ Observe

IsCancellation_Never(name) == FALSE

\* error.name === 'RenderingCancelledException'
IsCancellation(name) == name = "RenderingCancelledException"

\* await renderTask.promise settles: resolved, rejected with RenderingCancelledException
\* after cancel(), or rejected with another error
renderSettles(i, ok) ==
    /\ i \in DOMAIN renderRuns
    /\ renderRuns[i].pc = "render"
    /\ events < MaxEvents
    /\ LET renderTask == renderRuns[i].task
           outcome == IF renderTasks[renderTask] = "cancelled" THEN "RenderingCancelledException"
                      ELSE IF ok THEN "resolved" ELSE "Error"
       IN  /\ renderTasks' = [renderTasks EXCEPT ![renderTask] = "settled"]
           /\ IF outcome = "resolved"
              THEN /\ ev' = "renderSettles"
                   /\ renderTaskRef' = (IF renderTaskRef = renderTask THEN NoTask ELSE renderTaskRef)
                   /\ renderRuns' = [renderRuns EXCEPT ![i].pc = "getAnnotations"]
                   /\ logged' = logged
              ELSE /\ ev' = (IF outcome = "Error" THEN "renderFails" ELSE "renderCancelled")
                   /\ renderRuns' = RemoveRun(renderRuns, i)
                   /\ logged' = (IF IsCancellation(outcome) THEN logged ELSE logged + 1)
                   /\ UNCHANGED renderTaskRef
    /\ UNCHANGED << signatures, drawings, history, sessVars, drawVars, modeVars, pickVars, pendingLoads, nextId >>
    /\ UNCHANGED ioVars
    /\ UNCHANGED scale
    /\ Observe

\* await page.getAnnotations() settles: setSnapTargets(newTargets)
annotationsSettle(i, ok) ==
    /\ i \in DOMAIN renderRuns
    /\ renderRuns[i].pc = "getAnnotations"
    /\ events < MaxEvents
    /\ IF ok
       THEN /\ ev' = "annotationsSettle"
            /\ snapTargets' = AnnotationsOf(renderRuns[i].page)
            /\ logged' = logged
       ELSE /\ ev' = "annotationsFail"
            /\ logged' = logged + 1
            /\ UNCHANGED snapTargets
    /\ renderRuns' = RemoveRun(renderRuns, i)
    /\ UNCHANGED << signatures, drawings, history, sessVars, drawVars, aspectRatioLocked, isFreeDrawMode,
                    pageNum, pickVars, pendingLoads, nextId >>
    /\ UNCHANGED ioVars
    /\ UNCHANGED << scale, renderTaskRef, renderTasks >>
    /\ Observe

(***************************************************************************)
(* Export: what handleDownload and handleExportPageAsImage draw.           *)
(***************************************************************************)
\* page.getSize() of the pages of the document, in PDF points
PdfPageW == 600
PdfPageH == 800
\* const exportScale = 2.0
ExportScale == 2

\* Math.cos / Math.sin of an angle in degrees, for the quarter turns
CosDeg(a) == CASE a % 360 = 0 -> 1 [] a % 360 = 180 -> -1 [] OTHER -> 0
SinDeg(a) == CASE a % 360 = 90 -> 1 [] a % 360 = 270 -> -1 [] OTHER -> 0

PdfPoint_NoFlip(p) == [x |-> RMul(p.x, N(PdfPageW)), y |-> RMul(p.y, N(PdfPageH))]

\* { x: p.x * pageWidth, y: pageHeight - (p.y * pageHeight) }
PdfPoint(p) == [x |-> RMul(p.x, N(PdfPageW)), y |-> RSub(N(PdfPageH), RMul(p.y, N(PdfPageH)))]

\* the page.drawLine calls of one stroke
StrokeLines(stroke, pageIndex) ==
    IF Len(stroke.points) < 2 THEN << >>
    ELSE [j \in 1 .. Len(stroke.points) - 1 |->
             [page |-> pageIndex, start |-> PdfPoint(stroke.points[j]), end |-> PdfPoint(stroke.points[j + 1]),
              thickness |-> stroke.width, color |-> stroke.color, opacity |-> 1]]

\* pageStrokes.forEach(stroke => ...)
RECURSIVE PageLines(_, _, _)
PageLines(strokes, k, pageIndex) ==
    IF k > Len(strokes) THEN << >>
    ELSE StrokeLines(strokes[k], pageIndex) \o PageLines(strokes, k + 1, pageIndex)

\* "1. Burn Drawings": for (let i = 0; i < pages.length; i++)
RECURSIVE BurnDrawings(_, _, _)
BurnDrawings(draws, i, nPages) ==
    IF i >= nPages THEN << >>
    ELSE PageLines(StrokesOf(draws, i), 1, i) \o BurnDrawings(draws, i + 1, nPages)

PdfAngle_SameSign(rotation) == rotation

\* sig.rotation * -1
PdfAngle(rotation) == rotation * (-1)

\* "2. Burn Signatures": the drawOptions of one element
PdfImage(sig) ==
    LET imgWidth == RMul(RDiv(sig.width, N(100)), N(PdfPageW))
        imgHeight == RDiv(imgWidth, sig.aspectRatio)
        x == RMul(RDiv(sig.x, N(100)), N(PdfPageW))
        yFromTopUnits == RMul(RDiv(sig.y, N(100)), N(PdfPageH))
        y == RSub(RSub(N(PdfPageH), yFromTopUnits), imgHeight)
        angle == PdfAngle(sig.rotation)
        centerX == RAdd(x, RDiv(imgWidth, N(2)))
        centerY == RAdd(y, RDiv(imgHeight, N(2)))
        cos == N(CosDeg(angle))
        sin == N(SinDeg(angle))
        rotX == RSub(RMul(RDiv(imgWidth, N(2)), cos), RMul(RDiv(imgHeight, N(2)), sin))
        rotY == RAdd(RMul(RDiv(imgWidth, N(2)), sin), RMul(RDiv(imgHeight, N(2)), cos))
    IN  [page |-> sig.pageIndex, id |-> sig.id, dataUrl |-> sig.dataUrl,
         width |-> imgWidth, height |-> imgHeight, opacity |-> sig.opacity,
         x |-> IF sig.rotation # 0 THEN RSub(centerX, rotX) ELSE x,
         y |-> IF sig.rotation # 0 THEN RSub(centerY, rotY) ELSE y,
         rotate |-> IF sig.rotation # 0 THEN << angle >> ELSE << >>]

\* the document handleDownload saves: every line and every image, in drawing order
PdfOutput(job) ==
    [kind |-> "pdf", name |-> job.file, of |-> job,
     lines |-> BurnDrawings(job.draws, 0, DocPages(job.file)),
     images |-> [k \in DOMAIN job.sigs |-> PdfImage(job.sigs[k])]]

\* first.x * viewport.width, first.y * viewport.height
RasterPoint(p) ==
    [x |-> RMul(p.x, N(ExportScale * PdfPageW)), y |-> RMul(p.y, N(ExportScale * PdfPageH))]

\* "2. Draw Strokes": one path per stroke of at least 2 points
RECURSIVE RasterStrokes(_, _)
RasterStrokes(strokes, k) ==
    IF k > Len(strokes) THEN << >>
    ELSE (IF Len(strokes[k].points) < 2 THEN << >>
          ELSE << [points |-> [j \in DOMAIN strokes[k].points |-> RasterPoint(strokes[k].points[j])],
                   lineWidth |-> strokes[k].width * ExportScale, color |-> strokes[k].color] >>)
         \o RasterStrokes(strokes, k + 1)

\* "3. Draw Signatures": translate(cx, cy), rotate(rotation), translate(-cx, -cy), drawImage
RasterImage(sig) ==
    LET width == RMul(RDiv(sig.width, N(100)), N(ExportScale * PdfPageW))
        height == RDiv(width, sig.aspectRatio)
        x == RMul(RDiv(sig.x, N(100)), N(ExportScale * PdfPageW))
        y == RMul(RDiv(sig.y, N(100)), N(ExportScale * PdfPageH))
    IN  [id |-> sig.id, dataUrl |-> sig.dataUrl, x |-> x, y |-> y, width |-> width, height |-> height,
         alpha |-> sig.opacity, angle |-> sig.rotation,
         pivot |-> [x |-> RAdd(x, RDiv(width, N(2))), y |-> RAdd(y, RDiv(height, N(2)))]]

\* signatures.filter(s => s.pageIndex === pageNum - 1)
RECURSIVE OnPageIndex(_, _)
OnPageIndex(sigs, pageIndex) ==
    IF sigs = << >> THEN << >>
    ELSE (IF Head(sigs).pageIndex = pageIndex THEN << Head(sigs) >> ELSE << >>)
         \o OnPageIndex(Tail(sigs), pageIndex)

\* the image handleExportPageAsImage hands over
PngOutput(job) ==
    LET pageSignatures == OnPageIndex(job.sigs, job.pageNum - 1)
    IN  [kind |-> "png", name |-> job.file, of |-> job,
         strokes |-> RasterStrokes(StrokesOf(job.draws, job.pageNum - 1), 1),
         images |-> [k \in DOMAIN pageSignatures |-> RasterImage(pageSignatures[k])]]

(***************************************************************************)
(* Export and load: the async handlers, one action for the synchronous     *)
(* part of the call and one for the settling of its awaits.                *)
(***************************************************************************)
\* the files the user can select: a readable document, an unreadable one, an image
Files == {"docA", "docB", "docBad", "photo"}
\* selectedFile.type === 'application/pdf'
IsPdf(f) == f # "photo"
\* pdfjsLib.getDocument(...).promise resolves
Loads(f) == f \in {"docA", "docB"}

\* the state of the editor that handleFileChange and handleReset write
AppState ==
    [file |-> file, pdfDoc |-> pdfDoc, totalPages |-> totalPages, pageNum |-> pageNum,
     thumbnails |-> thumbnails, signatures |-> signatures, drawings |-> drawings, history |-> history]

\* onClick={() => setDownloadConfirmOpen(true)} disabled={isProcessing}
openDownloadConfirm ==
    /\ file # NoFile
    /\ ~isProcessing
    /\ ~downloadConfirmOpen
    /\ events < MaxEvents
    /\ ev' = "openDownloadConfirm"
    /\ downloadConfirmOpen' = TRUE
    /\ UNCHANGED << signatures, drawings, history, sessVars, drawVars, modeVars, pickVars, pendingLoads, nextId >>
    /\ UNCHANGED << file, pdfDoc, totalPages, thumbnails, isProcessing, pendingIO, downloads, alerts >>
    /\ UNCHANGED renderVars
    /\ Observe

\* the "Batal" button of the dialog
cancelDownloadConfirm ==
    /\ downloadConfirmOpen
    /\ events < MaxEvents
    /\ ev' = "cancelDownloadConfirm"
    /\ downloadConfirmOpen' = FALSE
    /\ UNCHANGED << signatures, drawings, history, sessVars, drawVars, modeVars, pickVars, pendingLoads, nextId >>
    /\ UNCHANGED << file, pdfDoc, totalPages, thumbnails, isProcessing, pendingIO, downloads, alerts >>
    /\ UNCHANGED renderVars
    /\ Observe

\* handleDownload up to its first await
handleDownload ==
    /\ downloadConfirmOpen
    /\ Len(pendingIO.download) < MaxPending
    /\ events < MaxEvents
    /\ ev' = "handleDownload"
    /\ IF file = NoFile \/ pdfDoc = NoFile
       THEN UNCHANGED << isProcessing, downloadConfirmOpen, pendingIO >>
       ELSE /\ isProcessing' = TRUE
            /\ downloadConfirmOpen' = FALSE
            /\ pendingIO' = [pendingIO EXCEPT !.download =
                                Append(@, [file |-> file, sigs |-> signatures, draws |-> drawings])]
    /\ UNCHANGED << signatures, drawings, history, sessVars, drawVars, modeVars, pickVars, pendingLoads, nextId >>
    /\ UNCHANGED << file, pdfDoc, totalPages, thumbnails, downloads, alerts >>
    /\ UNCHANGED renderVars
    /\ Observe

downloadSettles_SavesPartial(failAt) ==
    /\ pendingIO.download # << >>
    /\ failAt \in 0 .. Len(Head(pendingIO.download).sigs) + 1
    /\ events < MaxEvents
    /\ ev' = (IF failAt = 0 THEN "downloadSettles" ELSE "downloadFails")
    /\ IF failAt = 0
       THEN /\ downloads' = Append(downloads, PdfOutput(Head(pendingIO.download)))
            /\ alerts' = alerts
       ELSE /\ downloads' = Append(downloads, [PdfOutput(Head(pendingIO.download)) EXCEPT
                                              !.images = SubSeq(@, 1, failAt - 1)])
            /\ alerts' = alerts + 1
    /\ isProcessing' = FALSE
    /\ pendingIO' = [pendingIO EXCEPT !.download = Tail(@),
                                      !.settled = << [job |-> Head(pendingIO.download), failAt |-> failAt] >>]
    /\ UNCHANGED << signatures, drawings, history, sessVars, drawVars, modeVars, pickVars, pendingLoads, nextId >>
    /\ UNCHANGED << file, pdfDoc, totalPages, thumbnails, downloadConfirmOpen >>
    /\ UNCHANGED renderVars
    /\ Observe

\* a handleDownload that reads the elements and drawings of the latest render
downloadSettles_ReadsLive(failAt) ==
    /\ pendingIO.download # << >>
    /\ failAt \in 0 .. Len(Head(pendingIO.download).sigs) + 1
    /\ events < MaxEvents
    /\ ev' = (IF failAt = 0 THEN "downloadSettles" ELSE "downloadFails")
    /\ IF failAt = 0
       THEN /\ downloads' = Append(downloads, PdfOutput([Head(pendingIO.download) EXCEPT
                                                            !.sigs = signatures, !.draws = drawings]))
            /\ alerts' = alerts
       ELSE /\ downloads' = downloads
            /\ alerts' = alerts + 1
    /\ isProcessing' = FALSE
    /\ pendingIO' = [pendingIO EXCEPT !.download = Tail(@),
                                      !.settled = << [job |-> Head(pendingIO.download), failAt |-> failAt] >>]
    /\ UNCHANGED << signatures, drawings, history, sessVars, drawVars, modeVars, pickVars, pendingLoads, nextId >>
    /\ UNCHANGED << file, pdfDoc, totalPages, thumbnails, downloadConfirmOpen >>
    /\ UNCHANGED renderVars
    /\ Observe

\* handleDownload from its first await to the end of finally.  failAt = 0: every await
\* resolves; failAt = k: embedPng of the k-th element rejects; failAt = Len + 1:
\* PDFDocument.load or save rejects
downloadSettles(failAt) ==
    /\ pendingIO.download # << >>
    /\ failAt \in 0 .. Len(Head(pendingIO.download).sigs) + 1
    /\ events < MaxEvents
    /\ ev' = (IF failAt = 0 THEN "downloadSettles" ELSE "downloadFails")
    /\ IF failAt = 0
       THEN /\ downloads' = Append(downloads, PdfOutput(Head(pendingIO.download)))
            /\ alerts' = alerts
       ELSE /\ downloads' = downloads
            /\ alerts' = alerts + 1
    /\ isProcessing' = FALSE
    /\ pendingIO' = [pendingIO EXCEPT !.download = Tail(@),
                                      !.settled = << [job |-> Head(pendingIO.download), failAt |-> failAt] >>]
    /\ UNCHANGED << signatures, drawings, history, sessVars, drawVars, modeVars, pickVars, pendingLoads, nextId >>
    /\ UNCHANGED << file, pdfDoc, totalPages, thumbnails, downloadConfirmOpen >>
    /\ UNCHANGED renderVars
    /\ Observe

\* handleExportPageAsImage up to its first await.  decodes: whether the browser will fire
\* onload for the images of the elements on the page; the promise around each image has
\* no onerror, so an image that cannot be decoded leaves the call at that await
handleExportPageAsImage ==
    /\ file # NoFile
    /\ ~isProcessing
    /\ ~downloadConfirmOpen
    /\ Len(pendingIO.image) < MaxPending
    /\ events < MaxEvents
    /\ ev' = "handleExportPageAsImage"
    /\ IF pdfDoc = NoFile
       THEN UNCHANGED << isProcessing, pendingIO >>
       ELSE /\ isProcessing' = TRUE
            /\ \E decodes \in BOOLEAN :
                  /\ ~decodes => OnPageIndex(signatures, pageNum - 1) # << >>
                  /\ pendingIO' = [pendingIO EXCEPT !.image =
                                      Append(@, [file |-> file, doc |-> pdfDoc, pageNum |-> pageNum,
                                                 sigs |-> signatures, draws |-> drawings,
                                                 decodes |-> decodes])]
    /\ UNCHANGED << signatures, drawings, history, sessVars, drawVars, modeVars, pickVars, pendingLoads, nextId >>
    /\ UNCHANGED << file, pdfDoc, totalPages, thumbnails, downloadConfirmOpen, downloads, alerts >>
    /\ UNCHANGED renderVars
    /\ Observe

exportSettles_Deselects(ok) ==
    /\ pendingIO.image # << >>
    /\ Head(pendingIO.image).decodes
    /\ events < MaxEvents
    /\ ev' = (IF ok THEN "exportSettles" ELSE "exportFails")
    /\ IF ok
       THEN /\ downloads' = Append(downloads, PngOutput(Head(pendingIO.image)))
            /\ alerts' = alerts
       ELSE /\ downloads' = downloads
            /\ alerts' = alerts + 1
    /\ isProcessing' = FALSE
    /\ pendingIO' = [pendingIO EXCEPT !.image = Tail(@)]
    /\ selectedSigId' = NoId
    /\ UNCHANGED << signatures, drawings, history, sessVars, drawVars, modeVars, editingSigId,
                    deleteConfirm, pendingLoads, nextId >>
    /\ UNCHANGED << file, pdfDoc, totalPages, thumbnails, downloadConfirmOpen >>
    /\ UNCHANGED renderVars
    /\ Observe

\* handleExportPageAsImage from its first await to the end of finally
exportSettles(ok) ==
    /\ pendingIO.image # << >>
    /\ Head(pendingIO.image).decodes
    /\ events < MaxEvents
    /\ ev' = (IF ok THEN "exportSettles" ELSE "exportFails")
    /\ IF ok
       THEN /\ downloads' = Append(downloads, PngOutput(Head(pendingIO.image)))
            /\ alerts' = alerts
       ELSE /\ downloads' = downloads
            /\ alerts' = alerts + 1
    /\ isProcessing' = FALSE
    /\ pendingIO' = [pendingIO EXCEPT !.image = Tail(@)]
    /\ UNCHANGED << signatures, drawings, history, sessVars, drawVars, modeVars, pickVars, pendingLoads, nextId >>
    /\ UNCHANGED << file, pdfDoc, totalPages, thumbnails, downloadConfirmOpen >>
    /\ UNCHANGED renderVars
    /\ Observe

\* handleFileChange up to its first await; the input exists only while no file is selected
handleFileChange(selectedFile) ==
    /\ file = NoFile
    /\ ~downloadConfirmOpen
    /\ Len(pendingIO.load) < MaxPending
    /\ events < MaxEvents
    /\ ev' = "handleFileChange"
    /\ IF ~IsPdf(selectedFile)
       THEN /\ alerts' = alerts + 1
            /\ UNCHANGED << file, isProcessing, thumbnails, pendingIO >>
       ELSE /\ file' = selectedFile
            /\ isProcessing' = TRUE
            /\ thumbnails' = << >>
            /\ alerts' = alerts
            /\ pendingIO' = [pendingIO EXCEPT !.load =
                                Append(@, [file |-> selectedFile, before |-> AppState])]
    /\ UNCHANGED << signatures, drawings, history, sessVars, drawVars, modeVars, pickVars, pendingLoads, nextId >>
    /\ UNCHANGED << pdfDoc, totalPages, downloadConfirmOpen, downloads >>
    /\ UNCHANGED renderVars
    /\ Observe

\* handleFileChange from its first await to the end of finally, and the thumbnails
\* effect that follows setPdfDoc
loadSettles ==
    /\ pendingIO.load # << >>
    /\ Len(renderRuns) < MaxRuns
    /\ events < MaxEvents
    /\ LET selectedFile == Head(pendingIO.load).file
       IN  IF Loads(selectedFile)
           THEN /\ ev' = "loadSettles"
                /\ pdfDoc' = selectedFile
                /\ totalPages' = DocPages(selectedFile)
                /\ pageNum' = 1
                /\ signatures' = << >>
                /\ drawings' = NoDrawings
                /\ history' = [past |-> << >>, future |-> << >>]
                /\ thumbnails' = ThumbsOf(selectedFile)
                /\ alerts' = alerts
           ELSE /\ ev' = "loadFails"
                /\ alerts' = alerts + 1
                /\ UNCHANGED << pdfDoc, totalPages, pageNum, signatures, drawings, history, thumbnails >>
    /\ isProcessing' = FALSE
    /\ pendingIO' = [pendingIO EXCEPT !.load = Tail(@)]
    /\ UNCHANGED << sessVars, drawVars, aspectRatioLocked, isFreeDrawMode, snapTargets, pickVars,
                    pendingLoads, nextId >>
    /\ UNCHANGED << file, downloadConfirmOpen, downloads >>
    /\ RerunRender(file, pdfDoc', pageNum', scale)
    /\ UNCHANGED << scale, logged >>
    /\ Observe

\* the Reset button of the header
handleReset ==
    /\ file # NoFile
    /\ ~downloadConfirmOpen
    /\ events < MaxEvents
    /\ ev' = "handleReset"
    /\ file' = NoFile
    /\ pdfDoc' = NoFile
    /\ signatures' = << >>
    /\ drawings' = NoDrawings
    /\ thumbnails' = << >>
    /\ pageNum' = 1
    /\ history' = [past |-> << >>, future |-> << >>]
    /\ UNCHANGED << sessVars, drawVars, aspectRatioLocked, isFreeDrawMode, snapTargets, pickVars,
                    pendingLoads, nextId >>
    /\ UNCHANGED << totalPages, isProcessing, downloadConfirmOpen, pendingIO, downloads, alerts >>
    /\ RerunRender(file', pdfDoc', pageNum', scale)
    /\ UNCHANGED << scale, logged >>
    /\ Observe

\* setPageNum(p => Math.max(1, p - 1)) disabled={pageNum <= 1}
prevPage ==
    /\ file # NoFile
    /\ ~downloadConfirmOpen
    /\ pageNum > 1
    /\ Len(renderRuns) < MaxRuns
    /\ events < MaxEvents
    /\ ev' = "prevPage"
    /\ pageNum' = (IF pageNum - 1 > 1 THEN pageNum - 1 ELSE 1)
    /\ UNCHANGED << signatures, drawings, history, sessVars, drawVars, aspectRatioLocked, isFreeDrawMode,
                    snapTargets, pickVars, pendingLoads, nextId >>
    /\ UNCHANGED ioVars
    /\ RerunRender(file, pdfDoc, pageNum', scale)
    /\ UNCHANGED << scale, logged >>
    /\ Observe

\* setPageNum(p => Math.min(totalPages, p + 1)) disabled={pageNum >= totalPages}
nextPage ==
    /\ file # NoFile
    /\ ~downloadConfirmOpen
    /\ pageNum < totalPages
    /\ Len(renderRuns) < MaxRuns
    /\ events < MaxEvents
    /\ ev' = "nextPage"
    /\ pageNum' = (IF pageNum + 1 < totalPages THEN pageNum + 1 ELSE totalPages)
    /\ UNCHANGED << signatures, drawings, history, sessVars, drawVars, aspectRatioLocked, isFreeDrawMode,
                    snapTargets, pickVars, pendingLoads, nextId >>
    /\ UNCHANGED ioVars
    /\ RerunRender(file, pdfDoc, pageNum', scale)
    /\ UNCHANGED << scale, logged >>
    /\ Observe

(***************************************************************************)
(* The next-state relation.                                                *)
(***************************************************************************)
Next ==
    \/ undo
    \/ redo
    \/ \E dataUrl \in DataUrls : handleSaveSignature(dataUrl)
    \/ \E load \in pendingLoads : imgOnload(load)
    \/ \E dataUrl \in DataUrls, opacity \in Opacities : handleSaveStyle(dataUrl, opacity)
    \/ \E id \in Ids : handleDoubleClick(id)
    \/ handleCancelSignature
    \/ \E id \in Ids : requestDelete(id)
    \/ handleConfirmDelete
    \/ \E id \in Ids : handleDuplicateSignature(id)
    \/ toggleAspectRatioLocked
    \/ handleToggleFreeDraw
    \/ handleClearPage
    \/ \E p \in Pointers : handleStart(p)
    \/ \E id \in Ids, p \in Pointers : Rendered(id) /\ handleDragStart(id, p)
    \/ \E i \in DOMAIN signatures, h \in Handles, p \in Pointers : handleResizeStart(signatures[i], h, p)
    \/ \E i \in DOMAIN signatures, p \in Pointers : handleRotateStart(signatures[i], p)
    \/ \E p \in Pointers : pointerMove(p)
    \/ pointerUp
    \/ mouseLeave

Spec == Init /\ [][Next]_vars

(***************************************************************************)
(* A page in the middle of an editing session: elements have been placed   *)
(* and moved, one of them is selected, and a form field lies near the      *)
(* right edge of the page.  The history of the earlier edits is not kept:  *)
(* the gestures below only append to it.  Three events are left.           *)
(***************************************************************************)
PlacedSig(id, x, y) ==
    [id |-> id, dataUrl |-> "sigA", pageIndex |-> 0, x |-> x, y |-> y, width |-> N(20),
     aspectRatio |-> ImageAspect("sigA"), rotation |-> 0, opacity |-> N(1)]

PlacedElements ==
    { << PlacedSig(1, R(103, 10), N(40)), PlacedSig(2, N(50), N(90)) >>,
      << PlacedSig(1, R(203, 10), N(40)), PlacedSig(2, N(50), N(90)) >>,
      << PlacedSig(1, R(103, 10), N(40)), PlacedSig(2, R(251, 5), N(90)) >>,
      << PlacedSig(1, N(50), N(90)) >>,
      << PlacedSig(1, N(40), N(40)) >> }

PlacedAnnotations == << [x |-> R(401, 5), y |-> N(10), width |-> N(10), height |-> N(5)] >>

PlacedPointers == { [x |-> 20, y |-> 100], [x |-> 60, y |-> 100], [x |-> 90, y |-> 100], [x |-> 30, y |-> 120] }

PlacedHandles == { "se", "ne", "nw" }

InitPlaced ==
    /\ signatures \in PlacedElements
    /\ drawings = NoDrawings
    /\ history = [past |-> << >>, future |-> << >>]
    /\ historyStartRef = << >>
    /\ dragListeners = << >>
    /\ resizeMode = NoResize
    /\ rotateMode = NoRotate
    /\ aspectRatioLocked = TRUE
    /\ isFreeDrawMode = FALSE
    /\ selectedSigId = 1
    /\ editingSigId = NoId
    /\ deleteConfirm = NoId
    /\ pageNum = 1
    /\ snapTargets = PlacedAnnotations
    /\ snapLines = << >>
    /\ currentPoints = << >>
    /\ isDrawing = FALSE
    /\ pendingLoads = {}
    /\ nextId = Len(signatures) + 1
    /\ file = "docA"
    /\ pdfDoc = "docA"
    /\ totalPages = DocPages("docA")
    /\ thumbnails = ThumbsOf("docA")
    /\ isProcessing = FALSE
    /\ downloadConfirmOpen = FALSE
    /\ pendingIO = NoPending
    /\ downloads = << >>
    /\ alerts = 0
    /\ scale = 4
    /\ renderTaskRef = NoTask
    /\ renderRuns = << >>
    /\ renderTasks = << >>
    /\ logged = 0
    /\ ev = "init"
    /\ events = MaxEvents - 3
    /\ prevHistory = [past |-> << >>, future |-> << >>]
    /\ sessionStart = [resize |-> << >>, rotate |-> << >>]
    /\ track = TrackFrom(Live, << >>)
    /\ penDown = FALSE

NextPlaced ==
    \/ \E id \in Ids : handleDuplicateSignature(id)
    \/ toggleAspectRatioLocked
    \/ \E id \in Ids, p \in PlacedPointers : Rendered(id) /\ handleDragStart(id, p)
    \/ \E i \in DOMAIN signatures, h \in PlacedHandles, p \in PlacedPointers :
          handleResizeStart(signatures[i], h, p)
    \/ \E p \in PlacedPointers : pointerMove(p)
    \/ pointerUp

SpecPlaced == InitPlaced /\ [][NextPlaced]_vars

(***************************************************************************)
(* Export and load, from an edited document: elements on both pages, some  *)
(* of them rotated by quarter turns, and strokes on both pages.            *)
(***************************************************************************)
EditedSig(id, dataUrl, pageIndex, rotation) ==
    [id |-> id, dataUrl |-> dataUrl, pageIndex |-> pageIndex, x |-> N(10 * id), y |-> N(20),
     width |-> N(20), aspectRatio |-> ImageAspect(dataUrl), rotation |-> rotation,
     opacity |-> R(1, id)]

EditedElements ==
    { << >>,
      << EditedSig(1, "sigA", 0, 0), EditedSig(2, "sigB", 0, 90) >>,
      << EditedSig(1, "sigB", 0, -90), EditedSig(2, "sigA", 0, 180) >>,
      << EditedSig(1, "sigA", 1, 0) >> }

EditedStroke(points) == [points |-> points, color |-> BrushColor, width |-> BrushWidth]

EditedDrawings ==
    { NoDrawings,
      SetPage(NoDrawings, 0, << EditedStroke(<< [x |-> R(1, 2), y |-> N(0)], [x |-> R(1, 4), y |-> R(1, 2)],
                                                [x |-> N(1), y |-> N(1)] >>) >>),
      SetPage(SetPage(NoDrawings, 0, << >>), 1,
              << EditedStroke(<< [x |-> N(0), y |-> N(1)], [x |-> R(1, 2), y |-> N(0)] >>),
                 EditedStroke(<< [x |-> R(3, 4), y |-> R(1, 4)], [x |-> R(3, 4), y |-> R(1, 2)] >>) >>) }

InitIO ==
    /\ signatures \in EditedElements
    /\ drawings \in EditedDrawings
    /\ history = [past |-> IF signatures = << >> /\ drawings = NoDrawings THEN << >>
                           ELSE << [sigs |-> << >>, draws |-> NoDrawings] >>,
                  future |-> << >>]
    /\ historyStartRef = << >>
    /\ dragListeners = << >>
    /\ resizeMode = NoResize
    /\ rotateMode = NoRotate
    /\ aspectRatioLocked = TRUE
    /\ isFreeDrawMode = FALSE
    /\ selectedSigId = (IF signatures = << >> THEN NoId ELSE 1)
    /\ editingSigId = NoId
    /\ deleteConfirm = NoId
    /\ pageNum = 1
    /\ snapTargets = PageAnnotations
    /\ snapLines = << >>
    /\ currentPoints = << >>
    /\ isDrawing = FALSE
    /\ pendingLoads = {}
    /\ nextId = Len(signatures) + 1
    /\ file = "docA"
    /\ pdfDoc = "docA"
    /\ totalPages = DocPages("docA")
    /\ thumbnails = ThumbsOf("docA")
    /\ isProcessing = FALSE
    /\ downloadConfirmOpen = FALSE
    /\ pendingIO = NoPending
    /\ downloads = << >>
    /\ alerts = 0
    /\ scale = 4
    /\ renderTaskRef = NoTask
    /\ renderRuns = << >>
    /\ renderTasks = << >>
    /\ logged = 0
    /\ ev = "init"
    /\ events = MaxEvents - 5
    /\ prevHistory = history
    /\ sessionStart = [resize |-> << >>, rotate |-> << >>]
    /\ track = TrackFrom(Live, history.past)
    /\ penDown = FALSE

NextIO ==
    \/ openDownloadConfirm
    \/ cancelDownloadConfirm
    \/ handleDownload
    \/ \E failAt \in 0 .. MaxIds + 1 : downloadSettles(failAt)
    \/ handleExportPageAsImage
    \/ \E ok \in BOOLEAN : exportSettles(ok)
    \/ \E selectedFile \in Files : handleFileChange(selectedFile)
    \/ loadSettles
    \/ handleReset
    \/ prevPage
    \/ nextPage

SpecIO == InitIO /\ [][NextIO]_vars

\* the awaits of an export are promises of the browser and of the PDF libraries: one that
\* can settle is settled by a later task of the event loop.  The outcomes of a document
\* export are listed from the last await to the first, the fulfilment of all of them last.
SpecIOFair ==
    /\ SpecIO
    /\ WF_vars(\E k \in 0 .. MaxIds + 1 : downloadSettles(MaxIds + 1 - k))
    /\ WF_vars(\E ok \in BOOLEAN : exportSettles(ok))

(***************************************************************************)
(* Free drawing on an edited document: the toggle, the gestures on the     *)
(* drawing layer, the pointer going up where nothing listens, and the page *)
(* buttons.                                                                *)
(***************************************************************************)
\* where a move can be reported: a mousemove reaches the layer while the pointer is over
\* it, a touchmove is delivered to the layer the touch started on wherever the finger is
MovePointers == Pointers \cup { [x |-> 120, y |-> 100] }

NextDraw ==
    \/ handleToggleFreeDraw
    \/ prevPage
    \/ nextPage
    \/ \E p \in Pointers : handleStart(p)
    \/ \E p \in MovePointers : pointerMove(p)
    \/ pointerUp
    \/ mouseLeave
    \/ pointerReleased

SpecDraw == InitIO /\ [][NextDraw]_vars

(***************************************************************************)
(* Export while the document is being edited: the export buttons are the   *)
(* only controls isProcessing disables, so undo, redo and the toolbar of    *)
(* the selected element stay available while an export is in flight.       *)
(***************************************************************************)
NextExport ==
    \/ openDownloadConfirm
    \/ handleDownload
    \/ \E failAt \in 0 .. MaxIds + 1 : downloadSettles(failAt)
    \/ handleExportPageAsImage
    \/ \E ok \in BOOLEAN : exportSettles(ok)
    \/ undo
    \/ redo
    \/ \E id \in Ids : requestDelete(id)
    \/ handleConfirmDelete

SpecExport == InitIO /\ [][NextExport]_vars

(***************************************************************************)
(* Page render, from a loaded document whose first page has been rendered, *)
(* or has been drawn and is waiting for its annotations.                   *)
(***************************************************************************)
InitRender ==
    /\ signatures \in { << >>, << PlacedSig(1, N(40), N(40)) >> }
    /\ drawings = NoDrawings
    /\ history = [past |-> IF signatures = << >> THEN << >>
                           ELSE << [sigs |-> << >>, draws |-> NoDrawings] >>,
                  future |-> << >>]
    /\ historyStartRef = << >>
    /\ dragListeners = << >>
    /\ resizeMode = NoResize
    /\ rotateMode = NoRotate
    /\ aspectRatioLocked = TRUE
    /\ isFreeDrawMode = FALSE
    /\ selectedSigId = NoId
    /\ editingSigId = NoId
    /\ deleteConfirm = NoId
    /\ pageNum = 1
    /\ snapLines = << >>
    /\ currentPoints = << >>
    /\ isDrawing = FALSE
    /\ pendingLoads = {}
    /\ nextId = Len(signatures) + 1
    /\ file = "docA"
    /\ pdfDoc = "docA"
    /\ totalPages = DocPages("docA")
    /\ thumbnails = ThumbsOf("docA")
    /\ isProcessing = FALSE
    /\ downloadConfirmOpen = FALSE
    /\ pendingIO = NoPending
    /\ downloads = << >>
    /\ alerts = 0
    /\ scale = 4
    /\ renderTaskRef = NoTask
    /\ renderRuns \in { << >>, << [page |-> 1, scale |-> 4, task |-> 1, pc |-> "getAnnotations"] >> }
    /\ renderTasks = (IF renderRuns = << >> THEN << >> ELSE << "settled" >>)
    /\ snapTargets = (IF renderRuns = << >> THEN AnnotationsOf(1) ELSE << >>)
    /\ logged = 0
    /\ ev = "init"
    /\ events = MaxEvents - 6
    /\ prevHistory = history
    /\ sessionStart = [resize |-> << >>, rotate |-> << >>]
    /\ track = TrackFrom(Live, history.past)
    /\ penDown = FALSE

NextRender ==
    \/ prevPage
    \/ nextPage
    \/ handleZoomIn
    \/ handleZoomOut
    \/ \E i \in 1 .. MaxRuns : cancelSettles(i)
    \/ \E i \in 1 .. MaxRuns, ok \in BOOLEAN : getPageSettles(i, ok)
    \/ \E i \in 1 .. MaxRuns, ok \in BOOLEAN : renderSettles(i, ok)
    \/ \E i \in 1 .. MaxRuns, ok \in BOOLEAN : annotationsSettle(i, ok)

SpecRender == InitRender /\ [][NextRender]_vars

(***************************************************************************)
(* handleDragStart called with any id, also one that no element has.       *)
(***************************************************************************)
NextCalls ==
    \/ \E id \in Ids, p \in PlacedPointers : handleDragStart(id, p)
    \/ \E p \in PlacedPointers : pointerMove(p)
    \/ pointerUp

SpecCalls == InitPlaced /\ [][NextCalls]_vars

(***************************************************************************)
(* C1.  Undo / redo round trip: after any run of N recorded mutations      *)
(* S0 -> S1 -> ... -> SN, each performed with nothing else in flight, any  *)
(* number k <= N of undo() calls leaves the live overlay state equal to    *)
(* S(N-k), and redo() calls walk the same states forward again up to SN.   *)
(***************************************************************************)
C1_RoundTrip ==
    (track.trail # << >> /\ Idle) =>
        /\ track.pos \in 1 .. Len(track.trail)
        /\ Live = track.trail[track.pos]

\* two recorded mutations with three different states, two undos down to S0, two redos back to S2
C1_Witness ==
    /\ ev = "redo"
    /\ Idle
    /\ Len(track.trail) = 3
    /\ track.pos = 3
    /\ track.low = 1
    /\ track.trail[1] # track.trail[2]
    /\ track.trail[2] # track.trail[3]
    /\ track.trail[1] # track.trail[3]

(***************************************************************************)
(* C2.  Every step that appends a History Entry (saveToHistory and the     *)
(* commits of drag, resize and rotate; redo() is the one step that grows   *)
(* past without recording) leaves the future stack empty, so the redo()    *)
(* that follows finds nothing to restore.                                  *)
(***************************************************************************)
C2_RecordClearsFuture ==
    [][(ev' # "redo" /\ Len(history'.past) > Len(history.past)) => history'.future = << >>]_vars

\* a recorded mutation that found a redo branch and discarded it
C2_Witness ==
    /\ ev \notin {"undo", "redo"}
    /\ Len(history.past) > Len(prevHistory.past)
    /\ prevHistory.future # << >>
    /\ history.future = << >>

(***************************************************************************)
(* C3.  undo() with an empty past stack and redo() with an empty future    *)
(* stack change neither the elements, nor the drawings, nor either stack.  *)
(***************************************************************************)
C3_EmptyStackNoOp ==
    [][/\ (ev' = "undo" /\ history.past = << >>) =>
             (signatures' = signatures /\ drawings' = drawings /\ history' = history)
       /\ (ev' = "redo" /\ history.future = << >>) =>
             (signatures' = signatures /\ drawings' = drawings /\ history' = history)]_vars

\* undo() was called with nothing to undo while there was a redo branch and an element to lose
C3_Witness ==
    /\ ev = "undo"
    /\ prevHistory.past = << >>
    /\ history.future # << >>

\* the (elements, drawings) state at the pointer-down of every session that is active
ActiveSessionStarts ==
    { [sigs |-> dragListeners[i].signatures, draws |-> dragListeners[i].drawings] : i \in DOMAIN dragListeners }
    \cup (IF ResizeListening THEN { sessionStart.resize[1] } ELSE {})
    \cup (IF RotateListening THEN { sessionStart.rotate[1] } ELSE {})

(***************************************************************************)
(* C4.  A drag, resize or rotate session at whose pointer-up the element   *)
(* list differs from the list at the session's pointer-down appends        *)
(* exactly one History Entry, and that entry is the (elements, drawings)   *)
(* state captured at the session's pointer-down.                           *)
(***************************************************************************)
C4_SessionCommit ==
    [][(ev' = "pointerUp" /\ ~StrokeCommitted) =>
          \A start \in ActiveSessionStarts :
              JsonDiffers(start.sigs, signatures) => history'.past = Append(history.past, start)]_vars

(***************************************************************************)
(* C5.  A drag, resize or rotate session at whose pointer-up every element *)
(* equals its state at the session's pointer-down leaves the past and the  *)
(* future stacks unchanged.                                                *)
(***************************************************************************)
C5_NoChangeNoEntry ==
    [][(ev' = "pointerUp" /\ ~StrokeCommitted) =>
          \A start \in ActiveSessionStarts :
              start.sigs = signatures => history' = history]_vars

(***************************************************************************)
(* C6.  For every operation of the engine (add and redraw when the image   *)
(* has loaded, style edit, delete, duplicate, add stroke, clear page, and  *)
(* the ticks and the pointer-up of the sessions): if the overlay state     *)
(* (elements, drawings) after the operation equals the overlay state       *)
(* before it, the past stack is unchanged by the operation.                *)
(***************************************************************************)
C6_NoNetChangeNoEntry ==
    [][(/\ ev' \in {"imgOnload", "handleSaveStyle", "deleteSignature", "handleDuplicateSignature",
                    "handleClearPage", "pointerMove", "pointerUp", "mouseLeave"}
        /\ signatures' = signatures
        /\ drawings' = drawings)
       => history'.past = history.past]_vars

(***************************************************************************)
(* C7.  Each of delete element, duplicate element, style edit, add stroke  *)
(* and clear page appends exactly one History Entry per invocation, and    *)
(* that entry is the (elements, drawings) state immediately before the     *)
(* operation's change.  A stroke that ends on the pointer-up that also     *)
(* ends a session appends its own entry first; the session's commit is     *)
(* what follows it.                                                        *)
(***************************************************************************)
C7_OneEntryBeforeChange ==
    [][/\ ev' \in {"deleteSignature", "handleDuplicateSignature", "handleSaveStyle", "handleClearPage"}
            => history'.past = Append(history.past, Live)
       /\ (ev' \in {"pointerUp", "mouseLeave"} /\ StrokeCommitted) =>
            /\ Len(history'.past) > Len(history.past)
            /\ SubSeq(history'.past, 1, Len(history.past) + 1) = Append(history.past, Live)
            /\ UpListeners = 0 => Len(history'.past) = Len(history.past) + 1
            /\ drawings' # drawings]_vars

\* a stroke was added on top of an earlier entry and the new entry is the state without the stroke
C7_Witness ==
    /\ ev \in {"pointerUp", "mouseLeave"}
    /\ Len(history.past) = Len(prevHistory.past) + 1
    /\ Len(history.past) >= 2
    /\ history.past[Len(history.past)].draws # drawings
    /\ history.past[Len(history.past)].sigs = signatures
    /\ signatures # << >>

\* the position invariant of an element
PosInv(sig, rect) ==
    /\ RLe(N(0), sig.x)
    /\ RLe(sig.x, RSub(N(100), sig.width))
    /\ RLe(N(0), sig.y)
    /\ RLe(sig.y, RSub(N(100), HPct(sig.width, sig.aspectRatio, rect)))
    /\ RLe(N(1), sig.width)

\* x >= 0, y >= 0, x + width <= 100 and width >= 1
OnPage(sig) ==
    /\ RLe(N(0), sig.x)
    /\ RLe(N(0), sig.y)
    /\ RLe(RAdd(sig.x, sig.width), N(100))
    /\ RLe(N(1), sig.width)

(***************************************************************************)
(* C8.  For every element that satisfies the position invariant at the     *)
(* pointer-down of a drag or resize session, after every move tick of the  *)
(* session the element has x >= 0, y >= 0, x + width <= 100 and            *)
(* width >= 1.  Stated for a session that runs alone.                      *)
(***************************************************************************)
C8_SessionKeepsOnPage ==
    (ev = "pointerMove" /\ UpListeners = 1) =>
        /\ \A i \in DOMAIN dragListeners :
              (PosInv(dragListeners[i].sig, canvasRect) /\ HasSig(signatures, dragListeners[i].id))
                  => OnPage(FindSig(signatures, dragListeners[i].id))
        /\ (/\ ResizeListening
            /\ PosInv(resizeMode.startSig[1], canvasRect)
            /\ HasSig(signatures, resizeMode.startSig[1].id))
              => OnPage(FindSig(signatures, resizeMode.startSig[1].id))

(***************************************************************************)
(* C9.  With every element inside the page and no session active, after    *)
(* creating an element, after duplicating one and after replacing an       *)
(* element's image and aspect ratio, every element the operation wrote has *)
(* x in [0, 100 - width] and y in [0, 100 - height percent].               *)
(***************************************************************************)
C9_WrittenElementsOnPage ==
    [][(/\ ev' \in {"imgOnload", "handleDuplicateSignature"}
        /\ UpListeners = 0
        /\ \A i \in DOMAIN signatures : PosInv(signatures[i], canvasRect))
       => \A i \in DOMAIN signatures' :
              (i \notin DOMAIN signatures \/ signatures'[i] # signatures[i])
                  => PosInv(signatures'[i], canvasRect)]_vars

(***************************************************************************)
(* C10.  In every reachable state at most one of the drag, resize and      *)
(* rotate sessions is active.                                              *)
(***************************************************************************)
C10_OneSession ==
    Len(dragListeners) + (IF resizeMode.isResizing THEN 1 ELSE 0)
        + (IF rotateMode.isRotating THEN 1 ELSE 0) <= 1

(***************************************************************************)
(* C11.  In every reachable state in which free-draw mode is on, no drag,  *)
(* resize or rotate session is active.                                     *)
(***************************************************************************)
C11_DrawModeNoSession ==
    isFreeDrawMode =>
        /\ dragListeners = << >>
        /\ ~resizeMode.isResizing
        /\ ~rotateMode.isRotating

\* every stroke stored in a (page -> strokes) map has at least 2 points
StrokesHaveTwoPoints(draws) ==
    \A pg \in DOMAIN draws : \A i \in DOMAIN draws[pg] : Len(draws[pg][i].points) >= 2

(***************************************************************************)
(* C12.  In every reachable state every stroke stored in the page drawings *)
(* has at least 2 points; a drawing gesture that ends with fewer than 2    *)
(* captured points adds no stroke and records no History Entry.            *)
(***************************************************************************)
C12_StrokeHasTwoPoints ==
    /\ [](StrokesHaveTwoPoints(drawings))
    /\ [][(ev' \in {"pointerUp", "mouseLeave"} /\ LayerListening /\ Len(currentPoints) < 2) =>
             /\ drawings' = drawings
             /\ ~isDrawing'
             /\ currentPoints' = << >>
             /\ UpListeners = 0 => history' = history]_vars

\* a one-point gesture has just ended on a page that already holds a stroke
C12_Witness ==
    /\ ev = "mouseLeave"
    /\ history = prevHistory
    /\ \E pg \in DOMAIN drawings : drawings[pg] # << >>

\* min(v + 2, 90), written out
PlusTwoCapped(v) == IF RLe(RAdd(v, N(2)), N(90)) THEN RAdd(v, N(2)) ELSE N(90)

(***************************************************************************)
(* C13.  Duplicating an existing element appends one new element whose x   *)
(* is min(original.x + 2, 90) and y is min(original.y + 2, 90), whose id   *)
(* differs from every existing id and whose other fields equal the         *)
(* original's; the original and all other elements are unchanged and the   *)
(* copy becomes the selected element.                                      *)
(***************************************************************************)
C13_DuplicateCopy ==
    [][ev' = "handleDuplicateSignature" =>
          LET original == FindSig(signatures, selectedSigId)
              n == Len(signatures)
              copy == signatures'[n + 1]
          IN  /\ Len(signatures') = n + 1
              /\ SubSeq(signatures', 1, n) = signatures
              /\ copy.x = PlusTwoCapped(original.x)
              /\ copy.y = PlusTwoCapped(original.y)
              /\ \A i \in 1 .. n : signatures[i].id # copy.id
              /\ copy = [original EXCEPT !.id = copy.id, !.x = copy.x, !.y = copy.y]
              /\ selectedSigId' = copy.id]_vars

\* a copy whose y was capped at 90 and whose x is the original's plus 2
C13_Witness ==
    /\ ev = "handleDuplicateSignature"
    /\ Len(signatures) = 2
    /\ signatures[1].y = N(90)
    /\ signatures[2].y = N(90)
    /\ signatures[2].x = RAdd(signatures[1].x, N(2))
    /\ selectedSigId = signatures[2].id

\* one axis of a drag tick: prop is the clamped proposed position, size the element's extent,
\* cands the candidate lines and result the position the tick wrote
AxisSnapsOrKeeps(prop, size, cands, result) ==
    LET offsets == << N(0), RDiv(size, N(2)), size >>
        Near(k, i) == RLt(RAbs(RSub(RAdd(prop, offsets[k]), cands[i])), SNAP_THRESHOLD)
    IN  IF \E k \in 1 .. 3, i \in DOMAIN cands : Near(k, i)
        THEN \E k \in 1 .. 3, i \in DOMAIN cands : Near(k, i) /\ RAdd(result, offsets[k]) = cands[i]
        ELSE result = prop

C15_LockedEastResize ==
    (ResizeListening /\ aspectRatioLocked /\ HasSig(signatures, resizeMode.startSig[1].id)) =>
        \A p \in PlacedPointers, h \in {"e", "se"} :
            LET s == resizeMode.startSig[1]
                d == RMul(R(p.x - resizeMode.startPos.x, canvasRect.width), N(100))
                out == FindSig(ResizeMove([resizeMode EXCEPT !.handle = h], TRUE, p, canvasRect, signatures),
                               s.id)
                wPx == RMul(RDiv(out.width, N(100)), N(canvasRect.width))
                hPx == RMul(RDiv(HPct(out.width, out.aspectRatio, canvasRect), N(100)), N(canvasRect.height))
            IN  /\ out.width = (IF RLe(N(1), RAdd(s.width, d)) THEN RAdd(s.width, d) ELSE N(1))
                /\ out.aspectRatio = s.aspectRatio
                /\ out.x = s.x
                /\ out.y = s.y
                /\ RMul(HPct(out.width, out.aspectRatio, canvasRect), s.width)
                      = RMul(HPct(s.width, s.aspectRatio, canvasRect), out.width)
                /\ RDiv(wPx, hPx) = s.aspectRatio
                /\ (s.width = N(20) /\ s.aspectRatio = N(2) /\ d = N(10)) => out.width = N(30)

\* the tick of the example has run on the 'se' corner: width 20 became 30, aspect ratio 2 kept
C15_Witness ==
    /\ ev = "pointerMove"
    /\ ResizeListening
    /\ UpListeners = 1
    /\ aspectRatioLocked
    /\ resizeMode.handle = "se"
    /\ resizeMode.startSig[1].width = N(20)
    /\ resizeMode.startSig[1].aspectRatio = N(2)
    /\ FindSig(signatures, resizeMode.startSig[1].id).width = N(30)
    /\ FindSig(signatures, resizeMode.startSig[1].id).aspectRatio = N(2)
    /\ FindSig(signatures, resizeMode.startSig[1].id).x = resizeMode.startSig[1].x
    /\ FindSig(signatures, resizeMode.startSig[1].id).y = resizeMode.startSig[1].y


\* the number of segments of the strokes before the k-th one
RECURSIVE SegmentsBefore(_, _)
SegmentsBefore(strokes, k) ==
    IF k <= 1 THEN 0
    ELSE SegmentsBefore(strokes, k - 1) + Len(strokes[k - 1].points) - 1

\* the number of segments of the pages before page index i
RECURSIVE SegmentsBeforePage(_, _)
SegmentsBeforePage(draws, i) ==
    IF i <= 0 THEN 0
    ELSE SegmentsBeforePage(draws, i - 1)
         + SegmentsBefore(StrokesOf(draws, i - 1), Len(StrokesOf(draws, i - 1)) + 1)

\* (x, y) -> (x * pageWidth, pageHeight - y * pageHeight)
FlippedPoint(p, at) ==
    /\ at.x = RMul(p.x, N(PdfPageW))
    /\ at.y = RSub(N(PdfPageH), RMul(p.y, N(PdfPageH)))
    /\ (p = [x |-> R(1, 2), y |-> N(0)] => at = [x |-> R(PdfPageW, 2), y |-> N(PdfPageH)])

\* C16: every document that document export hands over holds, page after page and stroke
\* after stroke, one line for each pair of consecutive points of the stroke, in point
\* order, from (x*pageWidth, pageHeight - y*pageHeight) of the first point of the pair to
\* the same mapping of the second, with the stroke's width as thickness, and no other
\* line; the point (0.5, 0.0) lands on (0.5*pageWidth, pageHeight).
C16_StrokeSegments ==
    \A d \in DOMAIN downloads :
        downloads[d].kind = "pdf" =>
            LET out == downloads[d]
                draws == out.of.draws
                nPages == DocPages(out.of.file)
            IN  /\ Len(out.lines) = SegmentsBeforePage(draws, nPages)
                /\ \A i \in 0 .. nPages - 1 :
                       \A k \in DOMAIN StrokesOf(draws, i) :
                           LET stroke == StrokesOf(draws, i)[k]
                               base == SegmentsBeforePage(draws, i) + SegmentsBefore(StrokesOf(draws, i), k)
                           IN  \A j \in 1 .. Len(stroke.points) - 1 :
                                   /\ out.lines[base + j].page = i
                                   /\ FlippedPoint(stroke.points[j], out.lines[base + j].start)
                                   /\ FlippedPoint(stroke.points[j + 1], out.lines[base + j].end)
                                   /\ out.lines[base + j].thickness = stroke.width

\* a saved document with a stroke of three points, the first of them (0.5, 0.0)
C16_Witness ==
    \E d \in DOMAIN downloads :
        /\ downloads[d].kind = "pdf"
        /\ Len(downloads[d].lines) = 2
        /\ downloads[d].lines[1].start = [x |-> R(PdfPageW, 2), y |-> N(PdfPageH)]
        /\ downloads[d].lines[2].start = downloads[d].lines[1].end
        /\ downloads[d].lines[1].thickness = BrushWidth


\* the vector (a, b) turned counter-clockwise by a quarter-turn angle, in degrees
Turned(angle, a, b) ==
    CASE angle % 360 = 0 -> [x |-> a, y |-> b]
      [] angle % 360 = 90 -> [x |-> RSub(N(0), b), y |-> a]
      [] angle % 360 = 180 -> [x |-> RSub(N(0), a), y |-> RSub(N(0), b)]
      [] OTHER -> [x |-> b, y |-> RSub(N(0), a)]

\* the box of an element in a target space of the given size: top-left corner and extent
BoxIn(sig, spaceW, spaceH) ==
    LET w == RMul(RDiv(sig.width, N(100)), N(spaceW))
    IN  [left |-> RMul(RDiv(sig.x, N(100)), N(spaceW)),
         top |-> RMul(RDiv(sig.y, N(100)), N(spaceH)),
         w |-> w, h |-> RDiv(w, sig.aspectRatio)]

\* document export of one element: rotation -r about the centre, or none and the box itself
PdfDrawnAsClaimed(sig, img) ==
    LET box == BoxIn(sig, PdfPageW, PdfPageH)
        bottom == RSub(RSub(N(PdfPageH), box.top), box.h)
    IN  IF sig.rotation # 0
        THEN /\ img.rotate = << 0 - sig.rotation >>
             /\ LET half == Turned(0 - sig.rotation, RDiv(box.w, N(2)), RDiv(box.h, N(2)))
                IN  /\ RAdd(img.x, half.x) = RAdd(box.left, RDiv(box.w, N(2)))
                    /\ RAdd(img.y, half.y) = RAdd(bottom, RDiv(box.h, N(2)))
        ELSE /\ img.rotate = << >>
             /\ img.x = box.left
             /\ RAdd(img.y, img.height) = RSub(N(PdfPageH), box.top)

\* raster export of one element: rotation +r about the centre of the box drawn at its top-left
RasterDrawnAsClaimed(sig, img) ==
    LET box == BoxIn(sig, ExportScale * PdfPageW, ExportScale * PdfPageH)
    IN  /\ img.angle = sig.rotation
        /\ img.pivot = [x |-> RAdd(box.left, RDiv(box.w, N(2))), y |-> RAdd(box.top, RDiv(box.h, N(2)))]
        /\ img.x = box.left
        /\ img.y = box.top

\* C17: in every exported file, an element of rotation r # 0 is drawn by raster export
\* turned by +r about its centre and by document export with rotation -r and a draw origin
\* from which the turned half-diagonal leads to the element's centre; an element of
\* rotation 0 is drawn unrotated with its top-left corner at the mapped position.
C17_RotationSigns ==
    \A d \in DOMAIN downloads :
        LET out == downloads[d]
        IN  IF out.kind = "pdf"
            THEN /\ Len(out.images) = Len(out.of.sigs)
                 /\ \A k \in DOMAIN out.images : PdfDrawnAsClaimed(out.of.sigs[k], out.images[k])
            ELSE LET pageSignatures == OnPageIndex(out.of.sigs, out.of.pageNum - 1)
                 IN  /\ Len(out.images) = Len(pageSignatures)
                     /\ \A k \in DOMAIN out.images : RasterDrawnAsClaimed(pageSignatures[k], out.images[k])

\* both exports of a page with an unrotated element and one turned by 90
C17_Witness ==
    /\ \E d \in DOMAIN downloads :
           /\ downloads[d].kind = "pdf"
           /\ \E k \in DOMAIN downloads[d].images : downloads[d].images[k].rotate = << -90 >>
           /\ \E k \in DOMAIN downloads[d].images : downloads[d].images[k].rotate = << >>
    /\ \E d \in DOMAIN downloads :
           /\ downloads[d].kind = "png"
           /\ \E k \in DOMAIN downloads[d].images : downloads[d].images[k].angle = 90
           /\ \E k \in DOMAIN downloads[d].images : downloads[d].images[k].angle = 0


\* the steps of the two exports: the call up to its first await, and its settling
ExportStep ==
    ev' \in {"handleDownload", "downloadSettles", "downloadFails",
             "handleExportPageAsImage", "exportSettles", "exportFails"}

\* the editor state other than the two flags
EditorState ==
    << signatures, drawings, history, historyStartRef, dragListeners, resizeMode, rotateMode,
       aspectRatioLocked, isFreeDrawMode, selectedSigId, editingSigId, deleteConfirm, pageNum,
       snapTargets, snapLines, currentPoints, isDrawing, file, pdfDoc, totalPages, thumbnails >>

\* C18 as stated: a step of an export changes no state but the processing flag
C18_OnlyProcessingFlag ==
    [][ExportStep => UNCHANGED << EditorState, downloadConfirmOpen >>]_vars

\* C18: a step of document export or of page-image export, successful or failed, leaves
\* elements, drawings, past, future, the selection, the current page and every other
\* editor state unchanged, except the processing flag and, when document export starts,
\* the flag of the download confirmation dialog, which it sets to false.
C18_ExportFrame ==
    [][ExportStep =>
          /\ UNCHANGED EditorState
          /\ downloadConfirmOpen' # downloadConfirmOpen =>
                 ev' = "handleDownload" /\ ~downloadConfirmOpen' /\ isProcessing']_vars

\* a page image was exported and a document export failed, with elements placed and selected
C18_Witness ==
    /\ ev = "downloadFails"
    /\ \E d \in DOMAIN downloads : downloads[d].kind = "png"
    /\ signatures # << >>
    /\ selectedSigId # NoId
    /\ history.past # << >>
    /\ ~downloadConfirmOpen
    /\ ~isProcessing


\* the document export that settled in this step failed at the embedding of an element
EmbedFailed(settled) ==
    /\ settled # << >>
    /\ settled[1].failAt \in 1 .. Len(settled[1].job.sigs)

\* C19: when the embedding of the image of an element fails in document export, the step
\* that settles the export hands over no file, raises one alert, and leaves the
\* processing flag false.
C19_EmbedFailureAborts ==
    [][ev' = "downloadFails" /\ EmbedFailed(pendingIO'.settled) =>
          /\ downloads' = downloads
          /\ alerts' = alerts + 1
          /\ ~isProcessing']_vars

\* the embedding of the second element failed, after the strokes and the first element
\* had been drawn
C19_Witness ==
    /\ ev = "downloadFails"
    /\ EmbedFailed(pendingIO.settled)
    /\ pendingIO.settled[1].failAt = 2
    /\ BurnDrawings(pendingIO.settled[1].job.draws, 0, DocPages(pendingIO.settled[1].job.file)) # << >>
    /\ downloads = << >>
    /\ alerts = 1
    /\ ~isProcessing


\* C20: when the load of a selected document fails, the step that settles it leaves the
\* selected file, the loaded document, the page count, the page number, the thumbnails,
\* the elements, the drawings and the history as they were before the file was selected,
\* and the processing flag false.
C20_FailedLoadRestores ==
    [][ev' = "loadFails" => AppState' = Head(pendingIO.load).before /\ ~isProcessing']_vars


\* C21: at every moment at most one render task is drawing on the canvas (started, and
\* neither completed nor cancelled).
C21_OneRenderTask ==
    Cardinality(RunningTasks) <= 1


\* C22: the step in which a render task ends by cancellation logs no error, raises no
\* alert, and leaves elements, drawings, snap targets and history as they were.
C22_CancelIsSilent ==
    [][ev' = "renderCancelled" =>
          UNCHANGED << logged, alerts, signatures, drawings, snapTargets, history >>]_vars

\* a render task was cancelled by a later page or zoom change and its rejection arrived
C22_Witness ==
    /\ ev = "renderCancelled"
    /\ \E t \in DOMAIN renderTasks : renderTasks[t] = "settled"
    /\ signatures # << >>
    /\ logged = 0


\* C23: a call of handleDragStart with an id that no element has leaves elements, drawings,
\* past, future, the selected id, the session-start snapshot and the attached pointer
\* listeners as they were.
C23_UnknownIdNoOp ==
    [][ev' = "handleDragStart" /\ ~HasSig(signatures, selectedSigId') =>
          UNCHANGED << signatures, drawings, history, selectedSigId, historyStartRef, dragListeners >>]_vars


\* no pointer-move listener of a drag, resize or rotate session is attached
NoSessionListener ==
    dragListeners = << >> /\ ~ResizeListening /\ ~RotateListening

\* C24: after the pointer-up of a drag, resize or rotate session no pointer-move listener
\* of a session is attached, and a pointer move that arrives while none is attached
\* changes no element and no guide line.
C24_UpDetaches ==
    /\ [](ev = "pointerUp" => NoSessionListener)
    /\ [][ev' = "pointerMove" /\ NoSessionListener => UNCHANGED << signatures, snapLines >>]_vars

\* the pointer-up of a session that moved an element and was recorded
C24_Witness ==
    /\ ev = "pointerUp"
    /\ NoSessionListener
    /\ signatures # << >>
    /\ drawings = NoDrawings
    /\ Len(history.past) = 2
    /\ prevHistory # history


\* the last entry of a stack and the stack without it
LastOf(stack) == stack[Len(stack)]
FrontOf(stack) == SubSeq(stack, 1, Len(stack) - 1)

\* one undo() with a non-empty past
UndoMoves ==
    ev' = "undo" /\ history.past # << >> =>
        /\ history'.past = FrontOf(history.past)
        /\ [sigs |-> signatures', draws |-> drawings'] = LastOf(history.past)
        /\ history'.future = << Live >> \o history.future
        /\ Len(history'.past) + Len(history'.future) = Len(history.past) + Len(history.future)

\* one redo() with a non-empty future
RedoMoves ==
    ev' = "redo" /\ history.future # << >> =>
        /\ history'.future = Tail(history.future)
        /\ [sigs |-> signatures', draws |-> drawings'] = Head(history.future)
        /\ history'.past = Append(history.past, Live)
        /\ Len(history'.past) + Len(history'.future) = Len(history.past) + Len(history.future)

\* redo() as the event after an undo() that acted, and undo() as the event after a redo()
\* that acted: both stacks are those before the first of the two, and the live state is
\* the one the first of the two took away
BackAndForth ==
    /\ ev = "undo" /\ prevHistory.past # << >> /\ ev' = "redo" =>
           /\ history' = prevHistory
           /\ [sigs |-> signatures', draws |-> drawings'] = Head(history.future)
    /\ ev = "redo" /\ prevHistory.future # << >> /\ ev' = "undo" =>
           /\ history' = prevHistory
           /\ [sigs |-> signatures', draws |-> drawings'] = LastOf(history.past)

\* C25: undo() with a non-empty past removes exactly the last past entry, makes it the
\* live state and puts the previous live state at the head of future; redo() does the
\* converse with the head of future; both keep |past| + |future|; redo() right after
\* undo(), and undo() right after redo(), restore the live state and both stacks.
C25_UndoRedoMoves ==
    [][UndoMoves /\ RedoMoves /\ BackAndForth]_vars

\* two undos and then a redo, with entries left on both stacks
C25_Witness ==
    /\ ev = "redo"
    /\ prevHistory.future # << >>
    /\ history.past # << >>
    /\ history.future # << >>
    /\ Live # Head(history.future)
    /\ Live # LastOf(history.past)


\* the distance of own edge k of an element proposed at prop from candidate i
EdgeDistance(prop, size, cands, k, i) ==
    RAbs(RSub(RAdd(prop, << N(0), RDiv(size, N(2)), size >>[k]), cands[i]))

\* own edge k has a candidate within the threshold
EdgeHasCandidate(prop, size, cands, k) ==
    \E i \in DOMAIN cands : RLt(EdgeDistance(prop, size, cands, k, i), SNAP_THRESHOLD)

\* the first own edge, in the order leading, centre, trailing, that has a candidate
FirstEdge(prop, size, cands) ==
    CHOOSE k \in 1 .. 3 :
        /\ EdgeHasCandidate(prop, size, cands, k)
        /\ \A j \in 1 .. k - 1 : ~EdgeHasCandidate(prop, size, cands, j)

\* the position that puts own edge k on the candidate nearest to it (of equally near
\* candidates, the first of the list)
AlignedAt(prop, size, cands, k) ==
    LET i == CHOOSE i \in DOMAIN cands :
                 /\ \A j \in DOMAIN cands :
                        RLe(EdgeDistance(prop, size, cands, k, i), EdgeDistance(prop, size, cands, k, j))
                 /\ \A j \in 1 .. i - 1 :
                        RLt(EdgeDistance(prop, size, cands, k, i), EdgeDistance(prop, size, cands, k, j))
    IN  RSub(cands[i], << N(0), RDiv(size, N(2)), size >>[k])

\* the position of one axis after a tick, by edge priority; page(v) is what the page does to
\* the aligned position
AxisByPriority(prop, size, cands, result, hi, clamped) ==
    IF \E k \in 1 .. 3 : EdgeHasCandidate(prop, size, cands, k)
    THEN LET at == AlignedAt(prop, size, cands, FirstEdge(prop, size, cands))
         IN  result = (IF clamped THEN Clamp(at, N(0), hi) ELSE at)
    ELSE result = prop

\* both axes of every tick the listener of a drag that runs alone can receive
TicksByPriority(clamped) ==
    (Len(dragListeners) = 1 /\ UpListeners = 1 /\ HasSig(signatures, dragListeners[1].id)) =>
        \A p \in PlacedPointers :
            LET c == dragListeners[1]
                out == FindSig(DragMove(c, p, signatures, signaturesRef).sigs, c.id)
                hPct == HPct(c.sig.width, c.sig.aspectRatio, c.rect)
                propX == Clamp(RAdd(c.sig.x, RMul(R(p.x - c.startX, c.rect.width), N(100))),
                               N(0), RSub(N(100), c.sig.width))
                propY == Clamp(RAdd(c.sig.y, RMul(R(p.y - c.startY, c.rect.height), N(100))),
                               N(0), RSub(N(100), hPct))
            IN  /\ AxisByPriority(propX, c.sig.width,
                                  vSnapPoints(signatures, c.id, c.pageNum - 1, c.snapTargets),
                                  out.x, RSub(N(100), c.sig.width), clamped)
                /\ AxisByPriority(propY, hPct,
                                  hSnapPoints(signatures, c.id, c.pageNum - 1, c.snapTargets, c.rect),
                                  out.y, RSub(N(100), hPct), clamped)

\* C26 as stated: on each axis the first own edge, in the order leading, centre, trailing,
\* that has a candidate within the threshold ends exactly on the candidate nearest to it,
\* whatever the later edges are near to; with no such edge the position is the proposed one.
C26_FirstEdgeAligned ==
    TicksByPriority(FALSE)

\* C26: on each axis the first own edge, in the order leading, centre, trailing, that has a
\* candidate within the threshold is aligned to the candidate nearest to it, whatever the
\* later edges are near to, and the aligned position is then clamped to the page; with no
\* such edge the position is the proposed one.
C26_FirstEdgeThenClamp ==
    TicksByPriority(TRUE)

\* the element that started at 20.3 was proposed at 60.3: its left edge is 0.3 from the
\* sibling's centre line at 60, its right edge 0.1 from the form field at 80.2, and it
\* sits at 60
C26_Witness ==
    /\ ev = "pointerMove"
    /\ Len(dragListeners) = 1
    /\ UpListeners = 1
    /\ dragListeners[1].sig.x = R(203, 10)
    /\ FindSig(signatures, dragListeners[1].id).x = N(60)
    /\ \E i \in DOMAIN snapLines : snapLines[i] = [orientation |-> "vertical", position |-> N(60)]
    /\ \E i \in DOMAIN snapTargets : snapTargets[i].x = R(401, 5)


\* the guide lines of one orientation
GuideLines(orientation) ==
    { i \in DOMAIN snapLines : snapLines[i].orientation = orientation }

\* C27: after a tick of a drag that runs alone the guide lines hold at most one vertical
\* and at most one horizontal line, and every line lies on an own edge of the dragged
\* element (left, centre or right for a vertical line; top, middle or bottom for a
\* horizontal one), so an axis without a snap has no line.
C27_OneGuidePerAxis ==
    (ev = "pointerMove" /\ Len(dragListeners) = 1 /\ UpListeners = 1
        /\ HasSig(signatures, dragListeners[1].id)) =>
        LET c == dragListeners[1]
            el == FindSig(signatures, c.id)
            hPct == HPct(c.sig.width, c.sig.aspectRatio, c.rect)
        IN  /\ Cardinality(GuideLines("vertical")) <= 1
            /\ Cardinality(GuideLines("horizontal")) <= 1
            /\ \A i \in GuideLines("vertical") :
                   \E k \in 1 .. 3 : EdgesX(el.x, el.width)[k] = snapLines[i].position
            /\ \A i \in GuideLines("horizontal") :
                   \E k \in 1 .. 3 : EdgesX(el.y, hPct)[k] = snapLines[i].position


\* the element of the resize session after the tick for a pointer at p, had the session
\* been started on handle h in the given aspect mode
ResizedBy(h, locked, p) ==
    FindSig(ResizeMove([resizeMode EXCEPT !.handle = h], locked, p, canvasRect, signatures),
            resizeMode.startSig[1].id)

\* C28: in every tick of a resize session a handle containing 'w' leaves the right edge
\* x + width where it was at session start, and a handle containing 'n' leaves the bottom
\* edge y + height percent where it was, in aspect-free mode and in aspect-locked mode.
C28_OppositeEdgeAnchored ==
    (ResizeListening /\ HasSig(signatures, resizeMode.startSig[1].id)) =>
        \A p \in PlacedPointers, h \in {"nw", "sw", "ne"}, locked \in BOOLEAN :
            LET s == resizeMode.startSig[1]
                out == ResizedBy(h, locked, p)
            IN  /\ Includes(h, "w") => RAdd(out.x, out.width) = RAdd(s.x, s.width)
                /\ Includes(h, "n") =>
                       RAdd(out.y, HPct(out.width, out.aspectRatio, canvasRect))
                          = RAdd(s.y, HPct(s.width, s.aspectRatio, canvasRect))


\* the height percent an aspect-free tick for a pointer at p arrives at on handle h:
\* 's' adds the vertical delta, 'n' takes it away, neither goes below half a percent
FreeHeightPct(h, p) ==
    LET s == resizeMode.startSig[1]
        h0 == HPct(s.width, s.aspectRatio, canvasRect)
        deltaYPct == RMul(R(p.y - resizeMode.startPos.y, canvasRect.height), N(100))
    IN  IF Includes(h, "s") THEN RMax(R(1, 2), RAdd(h0, deltaYPct))
        ELSE IF Includes(h, "n") THEN RSub(h0, RMin(deltaYPct, RSub(h0, R(1, 2))))
        ELSE h0

\* C29: every tick of an aspect-free resize, on every handle and for every pointer
\* position, leaves the element at least 1% wide and at least 0.5% high, and stores an
\* aspectRatio from which the new width gives back exactly the new height percent.
C29_FreeResizeMinimums ==
    (ResizeListening /\ ~aspectRatioLocked /\ HasSig(signatures, resizeMode.startSig[1].id)) =>
        \A p \in PlacedPointers, h \in {"nw", "ne", "sw", "se"} :
            LET out == ResizedBy(h, FALSE, p)
                hPct == HPct(out.width, out.aspectRatio, canvasRect)
            IN  /\ RLe(N(1), out.width)
                /\ RLe(R(1, 2), hPct)
                /\ hPct = FreeHeightPct(h, p)

\* an aspect-free resize tick has brought an element down to both minimums, and its
\* aspectRatio is no longer the one it started the session with
C29_Witness ==
    /\ ev = "pointerMove"
    /\ ResizeListening
    /\ ~aspectRatioLocked
    /\ \E i \in DOMAIN signatures :
          /\ signatures[i].id = resizeMode.startSig[1].id
          /\ signatures[i].width = N(1)
          /\ HPct(signatures[i].width, signatures[i].aspectRatio, canvasRect) = R(1, 2)
          /\ signatures[i].aspectRatio # resizeMode.startSig[1].aspectRatio


\* the element list of the session-start state: the current list with the session's
\* element put back as the session captured it
Restarted(start) ==
    [i \in DOMAIN signatures |-> IF signatures[i].id = start.id THEN start ELSE signatures[i]]

\* one drag session and nothing else listening, on an element that is still there
LoneDrag ==
    /\ Len(dragListeners) = 1
    /\ ~ResizeListening
    /\ ~RotateListening
    /\ HasSig(signatures, dragListeners[1].id)

\* one resize session and nothing else listening, on an element that is still there
LoneResize ==
    /\ ResizeListening
    /\ dragListeners = << >>
    /\ ~RotateListening
    /\ HasSig(signatures, resizeMode.startSig[1].id)

\* C30: within one drag or resize session the tick for a pointer position gives the same
\* elements whatever the earlier ticks of the session did: computed from the list the
\* earlier ticks left and computed from the session-start list, the result is the same.
C30_TickFromSessionStart ==
    /\ LoneDrag =>
          \A p \in PlacedPointers :
              LET c == dragListeners[1]
              IN  DragMove(c, p, signatures, signaturesRef).sigs
                     = DragMove(c, p, Restarted(c.sig), Restarted(c.sig)).sigs
    /\ LoneResize =>
          \A p \in PlacedPointers :
              ResizeMove(resizeMode, aspectRatioLocked, p, canvasRect, signatures)
                 = ResizeMove(resizeMode, aspectRatioLocked, p, canvasRect,
                              Restarted(resizeMode.startSig[1]))

\* a tick of a lone drag session has moved the element away from where the session
\* found it, and a pointer position exists whose tick would move it again
C30_Witness ==
    /\ ev = "pointerMove"
    /\ LoneDrag
    /\ LET c == dragListeners[1]
           now == FindSig(signatures, c.id)
       IN  /\ now.x # c.sig.x
           /\ \E p \in PlacedPointers :
                 FindSig(DragMove(c, p, signatures, signaturesRef).sigs, c.id).x # now.x


\* the rotate session is the only listener on window
LoneRotate == RotateListening /\ dragListeners = << >> /\ ~ResizeListening

\* the list a rotate tick for a pointer at p has to leave: the session's element with the
\* rotation it had when the session started plus the angle the pointer has turned by,
\* everything else as it was
RotatedBy(p) ==
    LET start == FindSig(sessionStart.rotate[1].sigs, rotateMode.sigId)
        turned == Atan2Deg(p) - rotateMode.startAngle
    IN  [i \in DOMAIN signatures |->
            IF signatures[i].id = rotateMode.sigId
            THEN [signatures[i] EXCEPT !.rotation = start.rotation + turned]
            ELSE signatures[i]]

C32_EntryIsStateBeforeAdd ==
    [][ (ev' = "imgOnload" /\ signatures' # signatures) =>
            /\ Len(history'.past) > 0
            /\ history'.past[Len(history'.past)] = Live ]_vars


\* every renderPage call has run to its end and none of them failed
RendersSettled == renderRuns = << >> /\ logged = 0

\* C33: once all pending renders have settled, the snap targets are those of the page
\* that is selected: a render superseded by a later page or zoom change does not write
\* its targets after the render that superseded it.
C33_SettledTargetsCurrent ==
    (pdfDoc # NoFile /\ RendersSettled) => snapTargets = AnnotationsOf(pageNum)


\* the job the call that just started has put in flight
Started(queue) == queue[Len(queue)]

\* C34: an export draws the elements and drawings of the moment it was invoked.  The call
\* takes the live elements and drawings with it when it starts, and what it delivers when
\* it settles is drawn from what it took, whatever was edited, undone or redone meanwhile.
C34_ExportDrawsSnapshot ==
    /\ [][ (ev' = "handleDownload" /\ pendingIO'.download # pendingIO.download) =>
              /\ Started(pendingIO'.download).sigs = signatures
              /\ Started(pendingIO'.download).draws = drawings ]_vars
    /\ [][ (ev' = "handleExportPageAsImage" /\ pendingIO'.image # pendingIO.image) =>
              /\ Started(pendingIO'.image).sigs = signatures
              /\ Started(pendingIO'.image).draws = drawings
              /\ Started(pendingIO'.image).pageNum = pageNum ]_vars
    /\ [][ ev' = "downloadSettles" =>
              downloads' = Append(downloads, PdfOutput(Head(pendingIO.download))) ]_vars
    /\ [][ ev' = "exportSettles" =>
              downloads' = Append(downloads, PngOutput(Head(pendingIO.image))) ]_vars

\* a document export has delivered its file after the elements were changed while it was
\* in flight: the file shows the elements of the invocation, which are not the live ones
C34_Witness ==
    /\ ev = "downloadSettles"
    /\ pendingIO.settled # << >>
    /\ pendingIO.settled[1].job.sigs # signatures
    /\ pendingIO.settled[1].job.sigs # << >>
    /\ downloads # << >>
    /\ downloads[Len(downloads)] = PdfOutput(pendingIO.settled[1].job)
    /\ downloads[Len(downloads)] # PdfOutput([pendingIO.settled[1].job EXCEPT !.sigs = signatures])


\* the run has used up its events: nothing more is observed of it
RunEnded == events = MaxEvents

\* C35: every document export and every page-image export that was invoked finishes, with
\* a file or with a reported error, and leaves the processing flag false; also when the
\* image of an element on the exported page cannot be decoded.
C35_ExportsFinish ==
    /\ (pendingIO.download # << >>) ~> ((pendingIO.download = << >> /\ ~isProcessing) \/ RunEnded)
    /\ (pendingIO.image # << >>) ~> ((pendingIO.image = << >> /\ ~isProcessing) \/ RunEnded)


\* C36: the in-progress stroke takes points only between a pointer-down on the drawing
\* layer and the next pointer-up or pointer-leave: whenever no such gesture is in
\* progress, also after free-draw mode was switched off and on again, the point list is
\* empty and the layer is not capturing, so that a pointer move adds no point.
C36_PointsOnlyInGesture ==
    ~penDown => (currentPoints = << >> /\ ~LayerListening)


\* C37: a commit appends the stroke as the last stroke of the page that is current when it
\* commits: the strokes the page had keep their content and order in front of it, and the
\* strokes of every other page and the elements are unchanged.
C37_CommitAppendsToCurrentPage ==
    [][ (ev' \in {"pointerUp", "mouseLeave"} /\ drawings' # drawings) =>
            LET pg == pageNum - 1
                before == StrokesOf(drawings, pg)
                after == drawings'[pg]
            IN  /\ DOMAIN drawings' = DOMAIN drawings \cup {pg}
                /\ Len(after) = Len(before) + 1
                /\ \A k \in 1 .. Len(before) : after[k] = before[k]
                /\ after[Len(after)].points = currentPoints
                /\ \A other \in DOMAIN drawings \ {pg} : drawings'[other] = drawings[other]
                /\ signatures' = signatures ]_vars

\* a stroke drawn after turning to the second page has been committed behind the two
\* strokes that page had, and the first page is without strokes as before
C37_Witness ==
    /\ ev = "pointerUp"
    /\ pageNum = 2
    /\ Len(StrokesOf(drawings, 1)) = 3
    /\ StrokesOf(drawings, 1)[1].points = << [x |-> N(0), y |-> N(1)], [x |-> R(1, 2), y |-> N(0)] >>
    /\ Len(StrokesOf(drawings, 1)[3].points) = 2
    /\ StrokesOf(drawings, 0) = << >>


InUnit(v) == RLe(N(0), v) /\ RLe(v, N(1))

\* C38: every point of every committed stroke has x and y in [0, 1], wherever the mouse
\* or the finger was when the point was captured.
C38_PointsNormalized ==
    \A pg \in DOMAIN drawings : \A k \in DOMAIN drawings[pg] :
        \A j \in DOMAIN drawings[pg][k].points :
            InUnit(drawings[pg][k].points[j].x) /\ InUnit(drawings[pg][k].points[j].y)


\* no id occurs twice in an element list
DistinctIds(sigs) == \A i, j \in DOMAIN sigs : sigs[i].id = sigs[j].id => i = j

\* C39: the ids of the live elements are pairwise distinct, and so are the ids of the
\* elements of every History Entry, on the past stack and on the future stack.
C39_IdsDistinct ==
    /\ DistinctIds(signatures)
    /\ \A k \in DOMAIN history.past : DistinctIds(history.past[k].sigs)
    /\ \A k \in DOMAIN history.future : DistinctIds(history.future[k].sigs)

\* an element was added and duplicated, the duplicate undone and redone: two live
\* elements, and an entry with an element on the past stack
C39_Witness ==
    /\ ev = "redo"
    /\ prevHistory.future # << >>
    /\ Len(signatures) = 2
    /\ signatures[1].id # signatures[2].id
    /\ \E k \in DOMAIN history.past : Len(history.past[k].sigs) = 1


\* C40: the selected element id and the id being edited are each null or the id of an
\* element of the live list.
C40_PicksAreLive ==
    /\ selectedSigId = NoId \/ HasSig(signatures, selectedSigId)
    /\ editingSigId = NoId \/ HasSig(signatures, editingSigId)

====
